---- MODULE Spec2Model ----
(***************************************************************************)
(* Model of the FireStrike node (src/firestrike_temp/hidden_service.py)    *)
(* and of the store/find messages its command line front end               *)
(* (src/firestrike_temp/cli.py) exchanges with it.                         *)
(*                                                                         *)
(* Python values are represented as follows.                               *)
(*   bytes          a sequence of integers 0..255                          *)
(*   str (payload)  a sequence of one-character strings                    *)
(*   str (address, content id, status)  a TLA+ string                      *)
(*   dict           a function whose DOMAIN is the set of keys present     *)
(*   None           the absence of the key (dict.get), or "None" for the   *)
(*                  attributes of the node object                          *)
(***************************************************************************)
EXTENDS Integers, Sequences, FiniteSets, TLC

(***************************************************************************)
(* Bounds of the model.                                                    *)
(***************************************************************************)
\* the max_peers argument the node is constructed with
MaxPeers == 2
\* the wall clock stops advancing at MaxTime
MaxTime == 301

(***************************************************************************)
(* Program constants.                                                      *)
(***************************************************************************)
PEER_TIMEOUT == 300
PING_INTERVAL == 60
MAX_PEERS == 50
\* upload_file sends to peers[:3]
FanOut == 3

\* peer addresses that occur as senders
Addrs == {"a", "b", "c"}
\* content ids that occur in messages (the two values of sha3 below)
Ids == {"h0", "h1"}

(***************************************************************************)
(* Encodings: bytes.hex / bytes.fromhex / base64.b64encode / b64decode.    *)
(***************************************************************************)
HexChars == <<"0", "1", "2", "3", "4", "5", "6", "7",
              "8", "9", "a", "b", "c", "d", "e", "f">>
HexUpper == <<"0", "1", "2", "3", "4", "5", "6", "7",
              "8", "9", "A", "B", "C", "D", "E", "F">>
B64Chars == <<"A", "B", "C", "D", "E", "F", "G", "H", "I", "J", "K", "L", "M",
              "N", "O", "P", "Q", "R", "S", "T", "U", "V", "W", "X", "Y", "Z",
              "a", "b", "c", "d", "e", "f", "g", "h", "i", "j", "k", "l", "m",
              "n", "o", "p", "q", "r", "s", "t", "u", "v", "w", "x", "y", "z",
              "0", "1", "2", "3", "4", "5", "6", "7", "8", "9", "+", "/">>

Range(s) == {s[i] : i \in DOMAIN s}

HexDigits == Range(HexChars) \cup Range(HexUpper)
B64Alphabet == Range(B64Chars)
\* the value of each hex digit and of each base64 character
HexValues ==
    [c \in HexDigits |->
        IF c \in Range(HexChars)
        THEN (CHOOSE i \in 1..16 : HexChars[i] = c) - 1
        ELSE (CHOOSE i \in 1..16 : HexUpper[i] = c) - 1]
B64Values == [c \in B64Alphabet |-> (CHOOSE i \in 1..64 : B64Chars[i] = c) - 1]

IsHexDigit(c) == c \in HexDigits
HexVal(c) == HexValues[c]
IsB64Char(c) == c \in B64Alphabet
B64Val(c) == B64Values[c]

\* bytes.hex(): two lowercase hex digits per byte
hex(b) ==
    [i \in 1..(2 * Len(b)) |->
        IF i % 2 = 1 THEN HexChars[(b[(i + 1) \div 2] \div 16) + 1]
        ELSE HexChars[(b[i \div 2] % 16) + 1]]

FromHexDigits(s) ==
    [i \in 1..(Len(s) \div 2) |-> HexVal(s[2 * i - 1]) * 16 + HexVal(s[2 * i])]

\* bytes.fromhex(s): ValueError unless s is an even number of hex digits
fromhex(s) ==
    IF (\A i \in DOMAIN s : IsHexDigit(s[i])) /\ Len(s) % 2 = 0
    THEN [ok |-> TRUE, val |-> FromHexDigits(s)]
    ELSE [ok |-> FALSE, val |-> <<>>]

\* base64.b64encode(b).decode(): 4 characters per 3 bytes, '=' padded; the
\* character at position j belongs to the group of bytes 3g+1..3g+3
b64encode(b) ==
    [j \in 1..(4 * ((Len(b) + 2) \div 3)) |->
        LET g == (j - 1) \div 4
            b1 == b[3 * g + 1]
            b2 == IF 3 * g + 2 <= Len(b) THEN b[3 * g + 2] ELSE 0
            b3 == IF 3 * g + 3 <= Len(b) THEN b[3 * g + 3] ELSE 0
        IN  CASE (j - 1) % 4 = 0 -> B64Chars[(b1 \div 4) + 1]
              [] (j - 1) % 4 = 1 -> B64Chars[((b1 % 4) * 16 + (b2 \div 16)) + 1]
              [] (j - 1) % 4 = 2 ->
                    IF 3 * g + 2 > Len(b) THEN "="
                    ELSE B64Chars[((b2 % 16) * 4 + (b3 \div 64)) + 1]
              [] OTHER ->
                    IF 3 * g + 3 > Len(b) THEN "=" ELSE B64Chars[(b3 % 64) + 1]]

\* the bytes of a sequence of 6-bit values: three per group of four, one or
\* two for a last group of two or three values
B64Groups(v) ==
    [k \in 1..(3 * (Len(v) \div 4)
               + (IF Len(v) % 4 < 2 THEN 0 ELSE (Len(v) % 4) - 1)) |->
        LET g == (k - 1) \div 3
        IN  CASE (k - 1) % 3 = 0 -> v[4 * g + 1] * 4 + (v[4 * g + 2] \div 16)
              [] (k - 1) % 3 = 1 ->
                    (v[4 * g + 2] % 16) * 16 + (v[4 * g + 3] \div 4)
              [] OTHER -> (v[4 * g + 3] % 4) * 64 + v[4 * g + 4]]

\* binascii.a2b_base64 without strict_mode: a character outside the
\* alphabet is skipped; a '=' that completes a group of four (at least two
\* data characters of the group read, and enough '=' since the last data
\* character) ends the decoding, whatever follows; data characters left
\* over at the end of the text that do not fill a group are an error
a2b_base64(s) ==
    LET quad_pos(i) == Cardinality({j \in 1..(i - 1) : IsB64Char(s[j])}) % 4
        pads(i) == Cardinality({j \in 1..i :
                       /\ s[j] = "="
                       /\ \A k \in j..i : ~IsB64Char(s[k])})
        ends == {i \in DOMAIN s :
                    /\ s[i] = "="
                    /\ quad_pos(i) >= 2
                    /\ quad_pos(i) + pads(i) >= 4}
        end == IF ends = {} THEN Len(s) + 1
               ELSE CHOOSE i \in ends : \A j \in ends : i <= j
        chars == SelectSeq(SubSeq(s, 1, end - 1), IsB64Char)
        vals == [i \in DOMAIN chars |-> B64Val(chars[i])]
    IN  IF ends # {} \/ Len(vals) % 4 = 0
        THEN [ok |-> TRUE, val |-> B64Groups(vals)]
        ELSE [ok |-> FALSE, val |-> <<>>]

\* base64.b64decode(s) with validate=False
b64decode(s) == a2b_base64(s)

RECURSIVE SumBytes(_)
\* the sum of the bytes, halving the sequence so that files of several
\* thousand bytes stay within the evaluation depth
SumBytes(b) ==
    IF b = <<>> THEN 0
    ELSE IF Len(b) = 1 THEN b[1]
    ELSE SumBytes(SubSeq(b, 1, Len(b) \div 2))
         + SumBytes(SubSeq(b, Len(b) \div 2 + 1, Len(b)))

\* hashlib.sha3_256(b).hexdigest(), scaled down to a one-bit digest
sha3(b) == IF SumBytes(b) % 2 = 0 THEN "h0" ELSE "h1"

(***************************************************************************)
(* FileEncryptor: AES-256-CBC with PKCS7 padding over a file read in       *)
(* chunks.  The padder, the unpadder and the cipher contexts are the       *)
(* streaming objects of the cryptography package: each keeps a buffer      *)
(* between two update() calls.                                             *)
(***************************************************************************)
CHUNK_SIZE == 8192
IV_SIZE == 16
KEY_SIZE == 32
\* padding.PKCS7(128) and the AES block: 128 bits
BLOCK_SIZE == 16

Take(s, n) == SubSeq(s, 1, n)
Drop(s, n) == SubSeq(s, n + 1, Len(s))

RECURSIVE Xor(_, _)
Xor(a, b) ==
    IF a = 0 THEN b
    ELSE IF b = 0 THEN a
    ELSE ((a + b) % 2) + 2 * Xor(a \div 2, b \div 2)

XorTable == [a \in 0..255 |-> [b \in 0..255 |-> Xor(a, b)]]

\* the AES-256 permutation of one block under a 32-byte key and its inverse,
\* scaled down to a keyed substitution of each byte
aes_encrypt_byte(K, j, x) == (x + K[j] + K[j + BLOCK_SIZE]) % 256
aes_decrypt_byte(K, j, y) == (y + 512 - K[j] - K[j + BLOCK_SIZE]) % 256

\* CBC over whole blocks: c_i = E_K(p_i xor c_(i-1)), with c_0 = prev
RECURSIVE cbc_encrypt(_, _, _)
cbc_encrypt(K, prev, data) ==
    LET n == Len(data) \div BLOCK_SIZE
    IN  IF n = 0 THEN <<>>
        ELSE IF n = 1 THEN
            [j \in 1..BLOCK_SIZE |-> aes_encrypt_byte(K, j, XorTable[data[j]][prev[j]])]
        ELSE
            LET h == (n \div 2) * BLOCK_SIZE
                left == cbc_encrypt(K, prev, Take(data, h))
            IN  left \o cbc_encrypt(K, Drop(left, h - BLOCK_SIZE), Drop(data, h))

\* p_i = D_K(c_i) xor c_(i-1)
cbc_decrypt(K, prev, data) ==
    [i \in 1..Len(data) |->
        LET j == ((i - 1) % BLOCK_SIZE) + 1
        IN  XorTable[aes_decrypt_byte(K, j, data[i])]
                    [IF i <= BLOCK_SIZE THEN prev[j] ELSE data[i - BLOCK_SIZE]]]

\* cipher.encryptor() / cipher.decryptor(): the key, the chaining block and
\* the bytes of an incomplete block
CipherContext(K, iv) == [key |-> K, prev |-> iv, buf |-> <<>>]

\* update(data): the whole blocks of the buffered and the new bytes
encryptor_update(ctx, data) ==
    LET all == ctx.buf \o data
        n == (Len(all) \div BLOCK_SIZE) * BLOCK_SIZE
        out == cbc_encrypt(ctx.key, ctx.prev, Take(all, n))
    IN  [ctx |-> [key |-> ctx.key,
                  prev |-> IF n = 0 THEN ctx.prev ELSE Drop(out, n - BLOCK_SIZE),
                  buf |-> Drop(all, n)],
         out |-> out]

decryptor_update(ctx, data) ==
    LET all == ctx.buf \o data
        n == (Len(all) \div BLOCK_SIZE) * BLOCK_SIZE
    IN  [ctx |-> [key |-> ctx.key,
                  prev |-> IF n = 0 THEN ctx.prev
                           ELSE SubSeq(all, n - BLOCK_SIZE + 1, n),
                  buf |-> Drop(all, n)],
         out |-> cbc_decrypt(ctx.key, ctx.prev, Take(all, n))]

\* PKCS7 padder.update(data): the whole blocks; the rest stays buffered
padder_update(buf, data) ==
    LET all == buf \o data
        n == (Len(all) \div BLOCK_SIZE) * BLOCK_SIZE
    IN  [buf |-> Drop(all, n), out |-> Take(all, n)]

\* padder.finalize(): the buffer filled up with n bytes of value n, 1 <= n <= 16
padder_finalize(buf) ==
    LET n == BLOCK_SIZE - Len(buf)
    IN  buf \o [i \in 1..n |-> n]

\* PKCS7 unpadder.update(data): every whole block but the last, which may
\* hold the padding and stays buffered until finalize(); it never raises
unpadder_update(buf, data) ==
    LET all == buf \o data
        whole == Len(all) \div BLOCK_SIZE
        n == (IF whole > 0 THEN whole - 1 ELSE 0) * BLOCK_SIZE
    IN  [buf |-> Drop(all, n), out |-> Take(all, n)]

\* unpadder.finalize(): ValueError unless the buffer is one block that ends
\* with n bytes of value n; otherwise the block without them
unpadder_finalize(buf) ==
    IF Len(buf) # BLOCK_SIZE THEN [ok |-> FALSE, val |-> <<>>]
    ELSE LET n == buf[BLOCK_SIZE]
         IN  IF n \in 1..BLOCK_SIZE
                /\ \A i \in (BLOCK_SIZE - n + 1)..BLOCK_SIZE : buf[i] = n
             THEN [ok |-> TRUE, val |-> Take(buf, BLOCK_SIZE - n)]
             ELSE [ok |-> FALSE, val |-> <<>>]

RECURSIVE encrypt_loop(_, _, _, _)
\* while chunk := fin.read(CHUNK_SIZE): write encryptor.update(padder.update(chunk));
\* then write encryptor.update(padder.finalize()) + encryptor.finalize()
encrypt_loop(fin, padder, encryptor, fout) ==
    IF fin = <<>>
    THEN fout \o encryptor_update(encryptor, padder_finalize(padder)).out
    ELSE LET size == IF Len(fin) < CHUNK_SIZE THEN Len(fin) ELSE CHUNK_SIZE
             padded == padder_update(padder, Take(fin, size))
             encrypted == encryptor_update(encryptor, padded.out)
         IN  encrypt_loop(Drop(fin, size), padded.buf, encrypted.ctx,
                          fout \o encrypted.out)

\* FileEncryptor.encrypt_file: the file it writes, for the iv os.urandom gave
encrypt_file(plain, key, iv) ==
    IF Len(key) # KEY_SIZE THEN [ok |-> FALSE, error |-> "EncryptionError", val |-> <<>>]
    ELSE [ok |-> TRUE, error |-> "none",
          val |-> encrypt_loop(plain, <<>>, CipherContext(key, iv), iv)]

RECURSIVE decrypt_loop(_, _, _, _)
\* while chunk := f.read(CHUNK_SIZE): write unpadder.update(decryptor.update(chunk)).
\* unpadder.update raises no ValueError, so the except branch, the only
\* place where unpadder.finalize() is called, is never entered
decrypt_loop(f, decryptor, unpadder, fout) ==
    IF f = <<>> THEN fout
    ELSE LET size == IF Len(f) < CHUNK_SIZE THEN Len(f) ELSE CHUNK_SIZE
             decrypted == decryptor_update(decryptor, Take(f, size))
             unpadded == unpadder_update(unpadder, decrypted.out)
         IN  decrypt_loop(Drop(f, size), decrypted.ctx, unpadded.buf,
                          fout \o unpadded.out)

\* FileEncryptor.decrypt_file: DecryptionError, or the output file it writes
decrypt_file(encrypted, key) ==
    IF Len(key) # KEY_SIZE THEN [ok |-> FALSE, error |-> "DecryptionError", val |-> <<>>]
    ELSE IF Len(encrypted) < IV_SIZE
    THEN [ok |-> FALSE, error |-> "DecryptionError", val |-> <<>>]
    ELSE [ok |-> TRUE, error |-> "none",
          val |-> decrypt_loop(Drop(encrypted, IV_SIZE),
                               CipherContext(key, Take(encrypted, IV_SIZE)),
                               <<>>, <<>>)]

(***************************************************************************)
(* hashlib.sha3_256 as a streaming object: update() absorbs bytes in       *)
(* order, digest() gives 32 bytes.  The sponge is scaled down to a 16-bit  *)
(* state; sha3 above is the low bit of this digest.                        *)
(***************************************************************************)
DIGEST_SIZE == 32

\* hashlib.sha3_256()
sha3_256 == [acc |-> 0, len |-> 0]

RECURSIVE Absorb(_, _, _)
\* the state after the bytes chunk[i..] are absorbed
Absorb(acc, chunk, i) ==
    IF i > Len(chunk) THEN acc
    ELSE Absorb((31 * acc + chunk[i]) % 65536, chunk, i + 1)

\* hasher.update(chunk)
hasher_update(hasher, chunk) ==
    [acc |-> Absorb(hasher.acc, chunk, 1), len |-> hasher.len + Len(chunk)]

\* hasher.digest()
hasher_digest(hasher) ==
    [i \in 1..DIGEST_SIZE |->
        (hasher.acc * (2 * i + 1) + 2 * (hasher.acc \div 256)
            + 2 * i * hasher.len) % 256]

\* hasher.hexdigest()
hasher_hexdigest(hasher) == hex(hasher_digest(hasher))

RECURSIVE hash_loop(_, _, _)
\* while chunk := f.read(chunk_size): hasher.update(chunk)
hash_loop(f, chunk_size, hasher) ==
    IF f = <<>> THEN hasher
    ELSE LET size == IF Len(f) < chunk_size THEN Len(f) ELSE chunk_size
         IN  hash_loop(Drop(f, size), chunk_size,
                       hasher_update(hasher, Take(f, size)))

\* FileEncryptor.calculate_file_hash(file_path, chunk_size), for a positive
\* chunk_size; CHUNK_SIZE when the caller passes none
calculate_file_hash(f, chunk_size) ==
    hasher_hexdigest(hash_loop(f, chunk_size, sha3_256))

\* CryptoHandler.anonymous_hash(data, salt), for the salt os.urandom gives
\* when the caller passes none
anonymous_hash(data, salt) ==
    [digest |-> hasher_digest(hasher_update(hasher_update(sha3_256, salt), data)),
     salt |-> salt]

verify_hash_data_first(data, salt, expected_hash) ==
    hasher_digest(hasher_update(hasher_update(sha3_256, data), salt)) = expected_hash

\* CryptoHandler.verify_hash(data, salt, expected_hash)
verify_hash(data, salt, expected_hash) ==
    hasher_digest(hasher_update(hasher_update(sha3_256, salt), data)) = expected_hash

(***************************************************************************)
(* Magnet links: firestrike://<file hash>#<base64 key>.  A link is a       *)
(* sequence of characters.                                                 *)
(***************************************************************************)
HASH_LENGTH == 64

Scheme == <<"f", "i", "r", "e", "s", "t", "r", "i", "k", "e", ":", "/", "/">>
SchemeSep == <<":", "/", "/">>

\* str.startswith(prefix)
startswith(s, prefix) == Len(s) >= Len(prefix) /\ Take(s, Len(prefix)) = prefix

\* str.find(sep) + 1: where sep first occurs in s, 0 when it does not
find(s, sep) ==
    LET hits == {i \in 1..(Len(s) - Len(sep) + 1) :
                    SubSeq(s, i, i + Len(sep) - 1) = sep}
    IN  IF hits = {} THEN 0 ELSE CHOOSE i \in hits : \A j \in hits : i <= j

RECURSIVE split(_, _)
\* str.split(sep)
split(s, sep) ==
    LET i == find(s, sep)
    IN  IF i = 0 THEN <<s>>
        ELSE <<Take(s, i - 1)>> \o split(Drop(s, i + Len(sep) - 1), sep)

generate_magnet_link_unpadded(file_hash, key) ==
    Scheme \o file_hash \o <<"#">> \o SelectSeq(b64encode(key), LAMBDA c : c # "=")

\* FileEncryptor.generate_magnet_link(file_hash, key)
generate_magnet_link(file_hash, key) ==
    Scheme \o file_hash \o <<"#">> \o b64encode(key)

InvalidLink == [ok |-> FALSE, error |-> "ValueError", file_hash |-> <<>>, key |-> <<>>]

\* FileEncryptor.parse_magnet_link(magnet_link): every exception, the
\* binascii.Error of b64decode included, leaves as ValueError
parse_magnet_link(magnet_link) ==
    IF ~startswith(magnet_link, Scheme) THEN InvalidLink
    ELSE LET parts == split(split(magnet_link, SchemeSep)[2], <<"#">>)
         IN  IF Len(parts) # 2 THEN InvalidLink
             ELSE LET key == b64decode(parts[2])
                  IN  IF ~key.ok THEN InvalidLink
                      ELSE IF Len(parts[1]) # HASH_LENGTH THEN InvalidLink
                      ELSE IF Len(key.val) # KEY_SIZE THEN InvalidLink
                      ELSE [ok |-> TRUE, error |-> "none",
                            file_hash |-> parts[1], key |-> key.val]

(***************************************************************************)
(* The node object (FireStrikeNode.__init__) and the environment.          *)
(***************************************************************************)
VARIABLES
    peers,          \* self.peers: PeerInfo records in insertion order
    data_store,     \* self.data_store: content id -> bytes
    is_running,     \* self.is_running
    server,         \* self.server: "None", "serving" or "closed"
    tor_process,    \* self.tor_process: "None", "running" or "killed"
    controller,     \* self.controller: "None", "open" or "closed"
    onion_address,  \* self.onion_address
    ping_task,      \* the ping_peers task of self.background_tasks:
                    \* "none", "sleeping", "pinging", "cancelling" (cancel()
                    \* called, CancelledError not yet delivered) or "cancelled"
    sweep_queue,    \* the addresses ping_peers still has to ping in this sweep
    wake,           \* when the asyncio.sleep of ping_peers ends
    now,            \* time.time()
    scope,          \* which bounded input alphabet the environment draws from
    disk,           \* the files FileEncryptor reads and writes, and the
                    \* magnet link handed to the user
    cleanup_pc,     \* where a running cleanup() is suspended, and for whom
    start_call,     \* where the start() coroutine is, and who awaits it
    cli_node,       \* FireStrikeCLI.node: "None" or "set"
    cli,            \* the upload_file or download_file call in progress, or
                    \* the last one that ended
    last            \* the last event and what the node answered

vars == <<peers, data_store, is_running, server, tor_process, controller,
          onion_address, ping_task, sweep_queue, wake, now, scope, disk,
          cleanup_pc, start_call, cli_node, cli, last>>

\* dict.get(k) is None / not falsy
Has(m, k) == k \in DOMAIN m

\* how far the clock jumps between two events: exactly the timeout (a peer
\* seen at 0 is then not yet stale) or just beyond it.  The uploads and
\* downloads of the cli scope take place within PING_INTERVAL of start().
TimeSteps ==
    IF scope \in {"cli", "files", "links", "hashes", "storage", "network"} THEN {}
    ELSE {PEER_TIMEOUT, PEER_TIMEOUT + 1}

\* self.max_peers: init_node constructs the node with the default, the
\* other environments with max_peers = MaxPeers
max_peers == IF scope = "cli" THEN MAX_PEERS ELSE MaxPeers
\* for a key holding a str: an address or id (TLA+ string), a payload (sequence)
Truthy(m, k) == Has(m, k) /\ m[k] # ""
TruthyText(m, k) == Has(m, k) /\ Len(m[k]) > 0

\* a JSON value that is not an object (message.get raises AttributeError)
NonDict == [not_a_dict |-> TRUE]
IsDict(m) == ~Has(m, "not_a_dict")

\* the address of the hidden service of this node
OwnAddress == "self.onion"

\* the ciphertext the front end uploads (one block), and what the
\* encodings make of it
Cipher1 == <<171, 205>>
\* message.get('public_key', b''): the default, and a key sent as JSON text
PkDefault == [py_type |-> "bytes"]
PkText == [py_type |-> "str"]

PeerAddrs(p) == {p[i].onion_address : i \in DOMAIN p}
PeerOf(p, a) == p[CHOOSE i \in DOMAIN p : p[i].onion_address = a]
\* a removal that takes the oldest peer when the one named is gone
RemovePeer_or_oldest(p, a) ==
    IF \E i \in DOMAIN p : p[i].onion_address = a
    THEN SelectSeq(p, LAMBDA r : r.onion_address # a)
    ELSE IF p = <<>> THEN p ELSE Tail(p)

\* self.peers.pop(a, None)
RemovePeer(p, a) == SelectSeq(p, LAMBDA r : r.onion_address # a)

\* the dataclass PeerInfo
PeerInfo(addr, pk, seen, files) ==
    [onion_address |-> addr, public_key |-> pk, last_seen |-> seen,
     shared_files |-> files]

\* self.data_store[h] = data
PutData(d, h, data) ==
    [k \in DOMAIN d \cup {h} |-> IF k = h THEN data ELSE d[k]]

\* what a handler hands back to process_message: the response, or the
\* exception it raised, and the state it leaves
Return(resp, p, d) ==
    [exc |-> FALSE, text |-> "", resp |-> resp, peers |-> p, data_store |-> d]
Raise(text, p, d) ==
    [exc |-> TRUE, text |-> text, resp |-> <<>>, peers |-> p, data_store |-> d]

\* cleanup_peers with the comparison turned into >=
cleanup_peers_ge(p, t) ==
    SelectSeq(p, LAMBDA r : ~(t - r.last_seen >= PEER_TIMEOUT))

\* FireStrikeNode.cleanup_peers at time t
cleanup_peers(p, t) ==
    SelectSeq(p, LAMBDA r : ~(t - r.last_seen > PEER_TIMEOUT))

\* the fields of this node the message handlers read
Self ==
    [peers |-> peers, data_store |-> data_store,
     onion_address |-> onion_address, max_peers |-> max_peers]

\* handle_ping with the capacity test off by one (<= for <)
handle_ping_le(m) ==
    IF ~Truthy(m, "sender") THEN Raise("Missing sender address", peers, data_store)
    ELSE
    LET sender == m.sender
        pk == IF Has(m, "public_key") THEN PkText ELSE PkDefault
        p1 == IF sender \in PeerAddrs(peers)
              THEN [i \in DOMAIN peers |->
                       IF peers[i].onion_address = sender
                       THEN [peers[i] EXCEPT !.last_seen = now]
                       ELSE peers[i]]
              ELSE IF Len(peers) <= max_peers
              THEN Append(peers, PeerInfo(sender, pk, now, {}))
              ELSE peers
    IN  Return([type |-> "pong", status |-> "ok", address |-> onion_address],
               p1, data_store)

\* handle_ping refusing the ping of a sender it does not admit
handle_ping_refuses(m) ==
    IF ~Truthy(m, "sender") THEN Raise("Missing sender address", peers, data_store)
    ELSE IF m.sender \notin PeerAddrs(peers) /\ ~(Len(peers) < max_peers)
    THEN Raise("Directory full", peers, data_store)
    ELSE handle_ping_le(m)

\* FireStrikeNode.handle_ping
handle_ping_of(self, m) ==
    IF ~Truthy(m, "sender")
    THEN Raise("Missing sender address", self.peers, self.data_store)
    ELSE
    LET sender == m.sender
        pk == IF Has(m, "public_key") THEN PkText ELSE PkDefault
        p1 == IF sender \in PeerAddrs(self.peers)
              THEN [i \in DOMAIN self.peers |->
                       IF self.peers[i].onion_address = sender
                       THEN [self.peers[i] EXCEPT !.last_seen = now]
                       ELSE self.peers[i]]
              ELSE IF Len(self.peers) < self.max_peers
              THEN Append(self.peers, PeerInfo(sender, pk, now, {}))
              ELSE self.peers
    IN  Return([type |-> "pong", status |-> "ok", address |-> self.onion_address],
               p1, self.data_store)

\* FireStrikeNode.handle_ping on this node
handle_ping(m) == handle_ping_of(Self, m)

\* handle_store creating a peer record for a sender it does not know
MarkHolds_admits(p, m, h) ==
    IF ~Has(m, "sender") THEN p
    ELSE IF m.sender \in PeerAddrs(p)
    THEN [i \in DOMAIN p |->
             IF p[i].onion_address = m.sender
             THEN [p[i] EXCEPT !.shared_files = @ \cup {h}]
             ELSE p[i]]
    ELSE Append(p, PeerInfo(m.sender, PkDefault, now, {h}))

\* handle_store counting the store request as a sign of life of the sender
MarkHolds_refreshes(p, m, h) ==
    IF Has(m, "sender") /\ m.sender \in PeerAddrs(p)
    THEN [i \in DOMAIN p |->
             IF p[i].onion_address = m.sender
             THEN [p[i] EXCEPT !.shared_files = @ \cup {h}, !.last_seen = now]
             ELSE p[i]]
    ELSE p

\* the sender's shared_files, with h added when the sender is a known peer
MarkHolds(p, m, h) ==
    IF Has(m, "sender") /\ m.sender \in PeerAddrs(p)
    THEN [i \in DOMAIN p |->
             IF p[i].onion_address = m.sender
             THEN [p[i] EXCEPT !.shared_files = @ \cup {h}]
             ELSE p[i]]
    ELSE p

\* handle_store recording the sender as a holder before it validates the data
handle_store_marks_first(m) ==
    IF ~Truthy(m, "hash") THEN Raise("Missing file hash or data", peers, data_store)
    ELSE IF ~TruthyText(m, "data")
    THEN Raise("Missing file hash or data", MarkHolds(peers, m, m.hash), data_store)
    ELSE
    LET dec == b64decode(m.data) IN
    IF ~dec.ok THEN Raise("Incorrect padding", peers, data_store)
    ELSE Return([type |-> "store_response", status |-> "ok", hash |-> m.hash],
                MarkHolds(peers, m, m.hash), PutData(data_store, m.hash, dec.val))

\* FireStrikeNode.handle_store
handle_store_of(self, m) ==
    IF ~Truthy(m, "hash") \/ ~TruthyText(m, "data")
    THEN Raise("Missing file hash or data", self.peers, self.data_store)
    ELSE
    LET dec == b64decode(m.data) IN
    IF ~dec.ok THEN Raise("Incorrect padding", self.peers, self.data_store)
    ELSE
    LET d1 == PutData(self.data_store, m.hash, dec.val)
        p1 == MarkHolds(self.peers, m, m.hash)
    IN  Return([type |-> "store_response", status |-> "ok", hash |-> m.hash],
               p1, d1)

\* FireStrikeNode.handle_store on this node
handle_store(m) == handle_store_of(Self, m)

\* FireStrikeNode.handle_find
handle_find_of(self, m) ==
    IF ~Truthy(m, "hash")
    THEN Raise("Missing file hash", self.peers, self.data_store)
    ELSE
    LET h == m.hash IN
    IF h \in DOMAIN self.data_store /\ self.data_store[h] # <<>>
    THEN Return([type |-> "find_response", status |-> "found", hash |-> h,
                 data |-> b64encode(self.data_store[h])],
                self.peers, self.data_store)
    ELSE
    LET with == SelectSeq(self.peers, LAMBDA r : h \in r.shared_files)
    IN  Return([type |-> "find_response", status |-> "not_found", hash |-> h,
                peers |-> [i \in DOMAIN with |-> with[i].onion_address]],
               self.peers, self.data_store)

\* FireStrikeNode.handle_find on this node
handle_find(m) == handle_find_of(Self, m)

\* FireStrikeNode.handle_get_peers
handle_get_peers_of(self, m) ==
    LET p1 == cleanup_peers(self.peers, now) IN
    IF \E i \in DOMAIN p1 : p1[i].public_key.py_type # "bytes"
    THEN Raise("a bytes-like object is required, not 'str'", p1, self.data_store)
    ELSE Return([type |-> "peers_response", status |-> "ok",
                 peers |-> [i \in DOMAIN p1 |->
                     [address |-> p1[i].onion_address,
                      public_key |-> <<>>,
                      shared_files |-> p1[i].shared_files]]],
                p1, self.data_store)

\* FireStrikeNode.handle_get_peers on this node
handle_get_peers(m) == handle_get_peers_of(Self, m)

MessageType(m) == IF IsDict(m) /\ Has(m, "type") THEN m.type ELSE "None"

\* process_message reading message['type'] (KeyError when there is none)
process_message_subscript(m) ==
    LET r == IF ~IsDict(m)
             THEN Raise("object has no attribute 'get'", peers, data_store)
             ELSE IF ~Has(m, "type") THEN Raise("'type'", peers, data_store)
             ELSE CASE MessageType(m) = "ping" -> handle_ping(m)
                    [] MessageType(m) = "store" -> handle_store(m)
                    [] MessageType(m) = "find" -> handle_find(m)
                    [] MessageType(m) = "get_peers" -> handle_get_peers(m)
                    [] OTHER -> Return([type |-> "error",
                                        status |-> "unknown_message_type"],
                                       peers, data_store)
    IN  IF r.exc
        THEN [resp |-> [type |-> "error", status |-> "internal_error",
                        message |-> r.text],
              peers |-> r.peers, data_store |-> r.data_store]
        ELSE [resp |-> r.resp, peers |-> r.peers, data_store |-> r.data_store]

\* FireStrikeNode.process_message: the response and the state it leaves
\* process_message: "except Exception" around the handler that ended as r
process_message_except(r) ==
    IF r.exc
    THEN [resp |-> [type |-> "error", status |-> "internal_error",
                    message |-> r.text],
          peers |-> r.peers, data_store |-> r.data_store]
    ELSE [resp |-> r.resp, peers |-> r.peers, data_store |-> r.data_store]

process_message_of(self, m) ==
    process_message_except(
        IF ~IsDict(m)
        THEN Raise("object has no attribute 'get'", self.peers, self.data_store)
        ELSE CASE MessageType(m) = "ping" -> handle_ping_of(self, m)
               [] MessageType(m) = "store" -> handle_store_of(self, m)
               [] MessageType(m) = "find" -> handle_find_of(self, m)
               [] MessageType(m) = "get_peers" -> handle_get_peers_of(self, m)
               [] OTHER -> Return([type |-> "error",
                                   status |-> "unknown_message_type"],
                                  self.peers, self.data_store))

\* FireStrikeNode.process_message on this node
process_message(m) ==
    process_message_except(
        IF ~IsDict(m)
        THEN Raise("object has no attribute 'get'", peers, data_store)
        ELSE CASE MessageType(m) = "ping" -> handle_ping(m)
               [] MessageType(m) = "store" -> handle_store(m)
               [] MessageType(m) = "find" -> handle_find(m)
               [] MessageType(m) = "get_peers" -> handle_get_peers(m)
               [] OTHER -> Return([type |-> "error",
                                   status |-> "unknown_message_type"],
                                  peers, data_store))

(***************************************************************************)
(* What arrives on an inbound connection: the bytes reader.read returns,   *)
(* by what data.decode() and json.loads make of them.                      *)
(***************************************************************************)
PingInputs ==
    {[type |-> "ping", sender |-> a] : a \in Addrs}
    \cup {[type |-> "ping"], [type |-> "ping", sender |-> ""]}

\* the store message FireStrikeCLI.upload_file builds
UploadMessage(h, c, sender) ==
    [type |-> "store", hash |-> h, data |-> hex(c), sender |-> sender]
\* the find message FireStrikeCLI.download_file builds
DownloadMessage(h, sender) ==
    [type |-> "find", hash |-> h, sender |-> sender]

FindInputs ==
    {DownloadMessage(h, "a") : h \in Ids} \cup {[type |-> "find"]}

OtherInputs ==
    {[type |-> "get_peers", sender |-> "a"], [type |-> "bogus"],
     [sender |-> "a"], NonDict}

\* the environment of a behaviour that exercises the peer directory
DirectoryMessages ==
    PingInputs \cup FindInputs \cup OtherInputs
    \cup {UploadMessage("h0", Cipher1, "a"),
          [type |-> "store", hash |-> "h0", sender |-> "a"]}

\* payloads as a peer may encode them: base64 of the ciphertext (what
\* handle_store decodes), text that decodes to no byte at all, the hex of a
\* one-byte payload, and the empty string
PayloadTexts ==
    {hex(Cipher1), b64encode(Cipher1), <<"!">>, hex(<<65>>), <<>>}

\* the environment of a behaviour that exercises the data store
PayloadMessages ==
    {[type |-> "ping", sender |-> "a"],
     [type |-> "ping", sender |-> "a", public_key |-> "PK"]}
    \cup FindInputs \cup OtherInputs
    \cup {[type |-> "store", hash |-> "h0", data |-> t, sender |-> "a"] :
             t \in PayloadTexts}
    \cup {[type |-> "store", hash |-> "h1", data |-> t, sender |-> "a"] :
             t \in {hex(Cipher1), <<"!">>}}
    \cup {[type |-> "store", hash |-> "h0", data |-> hex(Cipher1)],
          [type |-> "store", data |-> hex(Cipher1), sender |-> "a"],
          [type |-> "store", hash |-> "", data |-> hex(Cipher1), sender |-> "a"],
          [type |-> "store", hash |-> "h1", sender |-> "a"]}

\* the peers of a behaviour that exercises upload_file and download_file
CliAddrs == {"a", "b", "c", "d"}
\* the orders in which they send their first ping
CliJoinOrders == {<<"a", "b", "c", "d">>, <<"d", "c", "b", "a">>}
\* the peer that pings next
CliJoiners ==
    {a \in CliAddrs : \E o \in CliJoinOrders :
        /\ Len(peers) < Len(o)
        /\ o[Len(peers) + 1] = a
        /\ \A i \in DOMAIN peers : peers[i].onion_address = o[i]}
\* the environment of such a behaviour: pings that fill the directory, and
\* a store that puts Cipher1 into the node's own store
CliMessages ==
    {[type |-> "ping", sender |-> a] : a \in CliJoiners}
    \cup {[type |-> "store", hash |-> "h0", data |-> b64encode(Cipher1),
           sender |-> "x"]}

\* the environment of a behaviour that exercises start() and stop()
LifecycleMessages ==
    {[type |-> "ping", sender |-> "a"], [type |-> "ping", sender |-> "b"],
     [type |-> "get_peers", sender |-> "a"]}

Messages ==
    CASE scope = "directory" -> DirectoryMessages
      [] scope = "payload" -> PayloadMessages
      [] scope = "lifecycle" -> LifecycleMessages
      [] scope = "cli" -> CliMessages
      [] scope \in {"files", "links", "hashes", "storage", "network"} -> {}

\* kind: "eof" (no data), "not_utf8" (data.decode raises), "not_json"
\* (json.loads raises JSONDecodeError), "json" (the value json.loads returns)
WireInputs ==
    {[kind |-> k, msg |-> <<>>] : k \in {"eof", "not_utf8", "not_json"}}
    \cup {[kind |-> "json", msg |-> m] : m \in Messages}

NoResponse == [type |-> "none"]

\* handle_connection: the response r of process_message is written and
\* the writer closed
handle_connection_drain(r) ==
    [written |-> TRUE, resp |-> r.resp, closed |-> TRUE,
     peers |-> r.peers, data_store |-> r.data_store]

\* FireStrikeNode.handle_connection: what is written to the peer, and the
\* state process_message leaves
handle_connection(w) ==
    IF w.kind = "json"
    THEN handle_connection_drain(process_message(w.msg))
    ELSE [written |-> FALSE, resp |-> NoResponse, closed |-> TRUE,
          peers |-> peers, data_store |-> data_store]

(***************************************************************************)
(* Initial state and actions.                                              *)
(***************************************************************************)
Init ==
    /\ peers = <<>>
    /\ data_store = <<>>
    /\ is_running = FALSE
    /\ server = "None"
    /\ tor_process = "None"
    /\ controller = "None"
    /\ onion_address = "None"
    /\ ping_task = "none"
    /\ sweep_queue = <<>>
    /\ wake = 0
    /\ now = 0
    /\ scope \in {"directory", "payload", "lifecycle", "cli", "files", "links",
                  "hashes", "storage", "network"}
    /\ disk = [state |-> "empty"]
    /\ cleanup_pc = [at |-> "idle"]
    /\ start_call = [state |-> "none"]
    /\ cli_node = "None"
    /\ cli = [op |-> "none", pc |-> "idle"]
    /\ last = [op |-> "init"]

lifecycle == <<is_running, server, tor_process, controller, onion_address>>
calls == <<cleanup_pc, start_call, cli_node, cli>>
sweep == <<ping_task, sweep_queue, wake>>
env == <<scope, disk>>

\* what the connection w, handled with outcome r, leaves
Served(w, r) ==
    /\ peers' = r.peers
    /\ data_store' = r.data_store
    /\ last' = [op |-> "connection", kind |-> w.kind, msg |-> w.msg,
                written |-> r.written, resp |-> r.resp,
                closed |-> r.closed,
                dropped |-> PeerAddrs(peers) \ PeerAddrs(r.peers)]

\* asyncio.start_server calls handle_connection for an inbound connection
Connection(w) ==
    /\ server = "serving"
    /\ Served(w, handle_connection(w))
    /\ UNCHANGED <<lifecycle, sweep, now, env, calls>>

\* time passes
Tick(d) ==
    /\ now + d <= MaxTime
    /\ now' = now + d
    /\ last' = [op |-> "tick"]
    /\ UNCHANGED <<peers, data_store, lifecycle, sweep, env, calls>>

\* ping_peers, from the loop test to its first await: the snapshot
\* list(self.peers.keys()); with no peer the sweep ends at once
SweepStart ==
    /\ ping_task = "sleeping"
    /\ now >= wake
    /\ is_running
    /\ IF peers = <<>>
       THEN /\ peers' = cleanup_peers(peers, now)
            /\ ping_task' = "sleeping"
            /\ sweep_queue' = <<>>
            /\ wake' = now + PING_INTERVAL
       ELSE /\ peers' = peers
            /\ ping_task' = "pinging"
            /\ sweep_queue' = [i \in DOMAIN peers |-> peers[i].onion_address]
            /\ wake' = wake
    /\ last' = [op |-> "sweep_start"]
    /\ UNCHANGED <<data_store, lifecycle, now, env, calls>>

\* the answers connect_to_peer can return to ping_peers: a pong, a dict
\* with another status, None (timeout, connection or decoding error), or a
\* JSON value that is true and no object
PingAnswers == {"ok", "error", "None", "other"}

\* ping_peers: "if not response or response.get('status') != 'ok'"; on a
\* value without get the AttributeError leaves the loop
ping_outcome(answer) ==
    IF answer = "None" THEN "drop"
    ELSE IF answer = "other" THEN "raise"
    ELSE IF answer # "ok" THEN "drop"
    ELSE "keep"

\* ping_peers, from the return of connect_to_peer to the next await: the
\* peer is dropped unless it answered ok; after the last peer of the
\* snapshot cleanup_peers runs and the task sleeps.  An exception is caught
\* around the whole sweep: the task logs it and sleeps.
SweepPing(answer) ==
    /\ ping_task = "pinging"
    /\ sweep_queue # <<>>
    /\ LET a == Head(sweep_queue)
           o == ping_outcome(answer)
           p1 == IF o = "drop" THEN RemovePeer(peers, a) ELSE peers
       IN  /\ IF o = "raise"
              THEN /\ peers' = peers
                   /\ ping_task' = "sleeping"
                   /\ wake' = now + PING_INTERVAL
                   /\ sweep_queue' = <<>>
              ELSE IF Tail(sweep_queue) = <<>>
              THEN /\ peers' = cleanup_peers(p1, now)
                   /\ ping_task' = "sleeping"
                   /\ wake' = now + PING_INTERVAL
                   /\ sweep_queue' = <<>>
              ELSE /\ peers' = p1
                   /\ ping_task' = "pinging"
                   /\ wake' = wake
                   /\ sweep_queue' = Tail(sweep_queue)
           /\ last' = [op |-> "sweep_ping", peer |-> a, answer |-> answer,
                       known |-> a \in PeerAddrs(peers),
                       dropped |-> PeerAddrs(peers) \ PeerAddrs(peers')]
    /\ UNCHANGED <<data_store, lifecycle, now, env, calls>>

\* cleanup without the kill of the Tor process
cleanup_keeps_tor(srv, tor, ctl, task) ==
    [is_running |-> FALSE,
     ping_task |-> IF task \in {"sleeping", "pinging"} THEN "cancelled" ELSE task,
     server |-> IF srv = "serving" THEN "closed" ELSE srv,
     controller |-> IF ctl = "open" THEN "closed" ELSE ctl,
     tor_process |-> tor,
     raised |-> FALSE]

\* cleanup without the loop that cancels the background tasks
cleanup_no_cancel(srv, tor, ctl, task) ==
    [is_running |-> FALSE,
     ping_task |-> task,
     server |-> IF srv = "serving" THEN "closed" ELSE srv,
     controller |-> IF ctl = "open" THEN "closed" ELSE ctl,
     tor_process |-> IF tor = "running" THEN "killed" ELSE tor,
     raised |-> FALSE]

\* FireStrikeNode.cleanup: what it leaves of the attributes it touches
cleanup(srv, tor, ctl, task) ==
    [is_running |-> FALSE,
     ping_task |-> IF task \in {"sleeping", "pinging"} THEN "cancelled" ELSE task,
     server |-> IF srv = "serving" THEN "closed" ELSE srv,
     controller |-> IF ctl = "open" THEN "closed" ELSE ctl,
     tor_process |-> IF tor = "running" THEN "killed" ELSE tor,
     raised |-> FALSE]

\* cleanup without the await of the cancelled task
task_not_awaited(task) == TRUE

\* cleanup: "await task" returns once the cancelled task has ended
task_awaited(task) == task # "cancelling"

\* cleanup, from its first statement to "await task": is_running is cleared
\* and every background task is cancelled
cleanup_begin(by) ==
    LET c == cleanup(server, tor_process, controller, ping_task)
    IN  /\ is_running' = c.is_running
        /\ ping_task' = IF c.ping_task # ping_task THEN "cancelling" ELSE ping_task
        /\ cleanup_pc' = [at |-> "await_task", by |-> by]

\* how far start() gets: to serve_forever ("ok"), or to the failure of
\* launch_tor_with_config, of the controller, of create_hidden_service or
\* of asyncio.start_server.  Outside the lifecycle scope the environment
\* calls start() once, on the fresh node, and Tor comes up.
StartOutcomes ==
    IF scope = "lifecycle"
    THEN {"ok", "launch_failed", "controller_failed", "service_failed",
          "bind_failed"}
    ELSE IF tor_process # "None"
            \/ scope \in {"files", "links", "hashes", "storage", "network"} THEN {}
    ELSE IF scope = "cli" THEN {"ok", "launch_failed"}
    ELSE {"ok"}

\* the calls of stop() the environment makes
StopCalls == IF scope = "lifecycle" THEN {"stop"} ELSE {}

\* FireStrikeNode.start with start_tor, awaited by the caller by: on success
\* it is suspended in serve_forever, every failure runs cleanup.  The ping
\* task that create_task has scheduled runs its first sweep as soon as
\* start() is suspended, before the handler of any connection: up to its
\* first await that is part of this step.
StartBy(by, outcome) ==
    LET o == IF tor_process # "None" THEN "already_running" ELSE outcome
        tor == IF o \in {"already_running", "launch_failed"}
               THEN tor_process ELSE "running"
        ctl == IF o \in {"already_running", "launch_failed", "controller_failed"}
               THEN controller ELSE "open"
        addr == IF o \in {"ok", "bind_failed"} THEN OwnAddress ELSE onion_address
    IN  /\ cleanup_pc.at = "idle"
        /\ onion_address' = addr
        /\ tor_process' = tor
        /\ controller' = ctl
        /\ IF o = "ok"
           THEN /\ server' = "serving"
                /\ is_running' = TRUE
                /\ ping_task' = IF peers = <<>> THEN "sleeping" ELSE "pinging"
                /\ wake' = IF peers = <<>> THEN now + PING_INTERVAL ELSE wake
                /\ sweep_queue' = [i \in DOMAIN peers |-> peers[i].onion_address]
                /\ start_call' = [state |-> "serve_forever", by |-> by]
                /\ cleanup_pc' = cleanup_pc
                /\ last' = [op |-> "start", phase |-> "serving",
                            outcome |-> o, by |-> by]
           ELSE /\ cleanup_begin([op |-> "start", phase |-> "cleanup",
                                  outcome |-> o, by |-> by])
                /\ last' = [op |-> "start", phase |-> "cleanup",
                            outcome |-> o, by |-> by]
                /\ UNCHANGED <<server, wake, sweep_queue, start_call>>
        /\ cli_node' = "set"
        /\ UNCHANGED <<peers, data_store, now, env, cli>>

\* start() awaited by FireStrikeCLI.init_node, or called on the node the
\* front end already has
Start(outcome) ==
    StartBy(IF cli_node = "None" THEN "init_node" ELSE "start", outcome)

\* FireStrikeNode.stop, up to the first await of cleanup
Stop ==
    LET n == IF last.op = "stop" /\ last.phase = "done" THEN 2 ELSE 1
        by == [op |-> "stop", phase |-> "called", n |-> n,
               raised |-> cleanup(server, tor_process, controller, ping_task).raised]
    IN  /\ cleanup_pc.at = "idle"
        /\ UNCHANGED <<tor_process, controller>>
        /\ cleanup_begin(by)
        /\ last' = by
        /\ UNCHANGED <<peers, data_store, server, onion_address, sweep_queue,
                       wake, now, env, start_call, cli_node, cli>>

\* ping_peers: the CancelledError that task.cancel() throws into the task
\* at its await is not caught by "except Exception", and ends the task
TaskCancelled ==
    /\ ping_task = "cancelling"
    /\ ping_task' = "cancelled"
    /\ sweep_queue' = <<>>
    /\ last' = [op |-> "task_cancelled"]
    /\ UNCHANGED <<peers, data_store, lifecycle, wake, now, env, calls>>

\* cleanup, from the return of "await task" to "await wait_closed": the
\* listener is closed, which ends the serve_forever of start() with a
\* CancelledError
CleanupCloseServer ==
    LET c == cleanup(server, tor_process, controller, ping_task)
    IN  /\ cleanup_pc.at = "await_task"
        /\ task_awaited(ping_task)
        /\ server' = c.server
        /\ start_call' = IF start_call.state = "serve_forever" /\ c.server # server
                         THEN [start_call EXCEPT !.state = "cancelled"]
                         ELSE start_call
        /\ cleanup_pc' = [cleanup_pc EXCEPT !.at = "wait_closed"]
        /\ last' = [cleanup_pc.by EXCEPT !.phase = "closed"]
        /\ UNCHANGED <<peers, data_store, is_running, tor_process, controller,
                       onion_address, sweep, now, env, cli_node, cli>>

\* cleanup, from the return of wait_closed to its end: the controller is
\* closed and the Tor process killed; then stop() returns, or start() raises
CleanupRelease ==
    LET c == cleanup(server, tor_process, controller, ping_task)
    IN  /\ cleanup_pc.at = "wait_closed"
        /\ controller' = c.controller
        /\ tor_process' = c.tor_process
        /\ cleanup_pc' = [at |-> "idle"]
        /\ last' = [cleanup_pc.by EXCEPT !.phase = "done"]
        /\ UNCHANGED <<peers, data_store, is_running, server, onion_address,
                       sweep, now, env, start_call, cli_node, cli>>

\* get_peers of the front end: what the response r of process_message leaves
GetPeersResponse(r) ==
    /\ peers' = r.peers
    /\ data_store' = r.data_store
    /\ last' = [op |-> "cli_get_peers", resp |-> r.resp,
                result |-> IF r.resp.status # "ok" THEN <<>> ELSE r.resp.peers,
                dropped |-> PeerAddrs(peers) \ PeerAddrs(r.peers)]

\* FireStrikeCLI.get_peers: CLIError without a node, else process_message
\* called on the node object
GetPeers ==
    IF cli_node = "None"
    THEN /\ last' = [op |-> "cli_error", call |-> "get_peers",
                     text |-> "Node is not running"]
         /\ UNCHANGED <<peers, data_store, lifecycle, sweep, now, env, calls>>
    ELSE /\ GetPeersResponse(
                process_message([type |-> "get_peers", sender |-> onion_address]))
         /\ UNCHANGED <<lifecycle, sweep, now, env, calls>>

(***************************************************************************)
(* The front end: FireStrikeCLI.upload_file and download_file.  A call     *)
(* that finds no node awaits init_node; the others run from one await of   *)
(* connect_to_peer to the next.                                            *)
(***************************************************************************)
\* the ids the front end uploads and downloads
UploadIds == IF scope = "cli" THEN {"h0"} ELSE {}
DownloadIds == IF scope = "cli" THEN {"h0"} ELSE {}

\* get_peers: the addresses in the response r of process_message
peers_of_response(r) ==
    [list |-> IF r.resp.status # "ok" THEN <<>>
              ELSE [i \in DOMAIN r.resp.peers |-> r.resp.peers[i].address],
     peers |-> r.peers, data_store |-> r.data_store]

\* FireStrikeCLI.get_peers as upload_file and download_file use it: the
\* addresses of the peers_response, [] for any other response
get_peers ==
    peers_of_response(process_message([type |-> "get_peers", sender |-> onion_address]))

\* what connect_to_peer returns for a store: None (timeout, connection or
\* decoding error), an object with status ok or with another status, or a
\* JSON value that is true and no object
StoreAnswers ==
    {[kind |-> "None"], [kind |-> "dict", status |-> "ok"],
     [kind |-> "dict", status |-> "error"], [kind |-> "other"]}

\* what connect_to_peer returns for a find: None, not_found naming a holder
\* outside the directory, found with the hex or with the base64 of the
\* ciphertext, or a JSON value that is true and no object
FindAnswers ==
    {[kind |-> "None"],
     [kind |-> "dict", status |-> "not_found", peers |-> <<"e">>],
     [kind |-> "dict", status |-> "found", data |-> hex(Cipher1)],
     [kind |-> "dict", status |-> "found", data |-> b64encode(Cipher1)],
     [kind |-> "other"]}

\* upload_file: "if response and response.get('status') == 'ok'"
store_outcome(r) ==
    IF r.kind = "None" THEN "skip"
    ELSE IF r.kind # "dict" THEN "raise"
    ELSE IF r.status = "ok" THEN "count"
    ELSE "skip"

\* upload_file sending to every peer of the snapshot
upload_targets_all(snapshot) == snapshot

\* upload_file: peers[:3]
upload_targets(snapshot) ==
    SubSeq(snapshot, 1, IF Len(snapshot) < FanOut THEN Len(snapshot) ELSE FanOut)

\* download_file going on to the next peer after a found answer
find_outcome_no_break(r) ==
    IF r.kind = "None" THEN "next"
    ELSE IF r.kind # "dict" THEN "raise"
    ELSE IF r.status # "found" THEN "next"
    ELSE IF ~fromhex(r.data).ok THEN "raise"
    ELSE "next"

\* download_file: "if response and response.get('status') == 'found'",
\* bytes.fromhex(response['data']), break, "if not encrypted_data"
find_outcome(r) ==
    IF r.kind = "None" THEN "next"
    ELSE IF r.kind # "dict" THEN "raise"
    ELSE IF r.status # "found" THEN "next"
    ELSE IF ~fromhex(r.data).ok THEN "raise"
    ELSE IF fromhex(r.data).val = <<>> THEN "empty"
    ELSE "found"

\* upload_file or download_file on a front end without node: init_node
InitNodeBy(by, outcome) ==
    /\ cli_node = "None"
    /\ StartBy(by, outcome)

\* upload_file before its loop: the targets are peers[:3]
UploadTargets(h, g, targets) ==
    /\ peers' = g.peers
    /\ data_store' = g.data_store
    /\ cli' = [op |-> "upload", h |-> h, snapshot |-> g.list,
               queue |-> targets, contacted |-> <<>>, count |-> 0,
               pc |-> IF targets = <<>> THEN "done" ELSE "fanout",
               result |-> IF targets = <<>> THEN "magnet" ELSE "pending"]
    /\ last' = [op |-> "upload", h |-> h,
                directory |-> [i \in DOMAIN cleanup_peers(peers, now) |->
                                 cleanup_peers(peers, now)[i].onion_address]]

\* upload_file from "peers = await self.get_peers()" on
UploadPeers(h, g) == UploadTargets(h, g, upload_targets(g.list))

\* upload_file on a front end with a node, up to the first connect_to_peer
Upload(h) ==
    /\ cli_node = "set"
    /\ cli.pc \in {"idle", "done"}
    /\ UploadPeers(h, get_peers)
    /\ UNCHANGED <<lifecycle, sweep, now, env, cleanup_pc, start_call, cli_node>>

\* upload_file, from the return of connect_to_peer to the next await or to
\* the end
UploadAnswer(r) ==
    /\ cli.op = "upload"
    /\ cli.pc = "fanout"
    /\ LET a == Head(cli.queue)
           rest == Tail(cli.queue)
           o == store_outcome(r)
       IN  /\ cli' = [cli EXCEPT
                  !.contacted = Append(@, a),
                  !.queue = rest,
                  !.count = IF o = "count" THEN @ + 1 ELSE @,
                  !.pc = IF o = "raise" \/ rest = <<>> THEN "done" ELSE "fanout",
                  !.result = IF o = "raise" THEN "CLIError"
                             ELSE IF rest = <<>> THEN "magnet" ELSE "pending"]
           /\ last' = [op |-> "upload_answer", peer |-> a, answer |-> r]
    /\ UNCHANGED <<peers, data_store, lifecycle, sweep, now, env, cleanup_pc,
                   start_call, cli_node>>

\* download_file from "peers = await self.get_peers()" on
DownloadPeers(h, g) ==
    /\ peers' = g.peers
    /\ data_store' = g.data_store
    /\ cli' = [op |-> "download", h |-> h, snapshot |-> g.list,
               queue |-> g.list, contacted |-> <<>>, data |-> <<>>,
               local |-> Has(data_store, h),
               pc |-> IF g.list = <<>> THEN "done" ELSE "search",
               result |-> IF g.list = <<>> THEN "CLIError" ELSE "pending"]
    /\ last' = [op |-> "download", h |-> h]

\* download_file on a front end with a node, up to the first connect_to_peer
Download(h) ==
    /\ cli_node = "set"
    /\ cli.pc \in {"idle", "done"}
    /\ DownloadPeers(h, get_peers)
    /\ UNCHANGED <<lifecycle, sweep, now, env, cleanup_pc, start_call, cli_node>>

\* download_file, from the return of connect_to_peer to the next await or
\* to the end (the decryption of what bytes.fromhex returned)
DownloadAnswer(r) ==
    /\ cli.op = "download"
    /\ cli.pc = "search"
    /\ LET a == Head(cli.queue)
           rest == Tail(cli.queue)
           o == find_outcome(r)
       IN  /\ cli' = [cli EXCEPT
                  !.contacted = Append(@, a),
                  !.queue = rest,
                  !.data = IF o = "found" THEN fromhex(r.data).val ELSE @,
                  !.pc = IF o = "next" /\ rest # <<>> THEN "search" ELSE "done",
                  !.result = IF o = "found" THEN "ok"
                             ELSE IF o = "next" /\ rest # <<>> THEN "pending"
                             ELSE "CLIError"]
           /\ last' = [op |-> "download_answer", peer |-> a, answer |-> r]
    /\ UNCHANGED <<peers, data_store, lifecycle, sweep, now, env, cleanup_pc,
                   start_call, cli_node>>

(***************************************************************************)
(* The files scope: a user of FileEncryptor encrypts a file under a key,   *)
(* the stored file may be damaged, and someone decrypts it.                *)
(***************************************************************************)
\* the lengths of the plaintexts: empty, one byte, one block, one byte more
\* than a block, and one block more than a chunk
PlainLengths ==
    IF scope = "files"
    THEN {0, 1, BLOCK_SIZE, BLOCK_SIZE + 1, CHUNK_SIZE + BLOCK_SIZE}
    ELSE {}
PlainOf(n) == [i \in 1..n |-> (7 * i) % 256]

Key1 == [i \in 1..KEY_SIZE |-> i]
Key2 == [i \in 1..KEY_SIZE |-> 2 * i]
KeyShort == [i \in 1..(KEY_SIZE - 1) |-> i]
\* generate_key() for the encryption, and a caller's own short key
EncryptKeys == {Key1, KeyShort}
\* the keys a decryption is tried with: the right one, a wrong one, a short one
DecryptKeys == IF scope = "files" THEN {Key1, Key2, KeyShort} ELSE {}
\* os.urandom(IV_SIZE)
IVs == {[i \in 1..IV_SIZE |-> 100 + i]}
\* what happens to the stored file: cut to fewer bytes than an IV, or its
\* last byte changed
Damages == IF scope = "files" THEN {"cut", "flip"} ELSE {}

\* encrypt_file(file_path, key, output_path)
EncryptFile(n, key, iv) ==
    /\ disk.state = "empty"
    /\ LET r == encrypt_file(PlainOf(n), key, iv)
       IN  /\ disk' = IF r.ok
                      THEN [state |-> "encrypted", plain |-> PlainOf(n),
                            key |-> key, fire |-> r.val, intact |-> TRUE,
                            out |-> [exists |-> FALSE, bytes |-> <<>>]]
                      ELSE disk
           /\ last' = [op |-> "encrypt_file", length |-> n, key |-> key,
                       error |-> r.error]
    /\ UNCHANGED <<peers, data_store, lifecycle, sweep, now, scope, calls>>

\* the environment damages the encrypted file
Damage(kind) ==
    /\ disk.state = "encrypted"
    /\ disk.intact
    /\ disk' = [disk EXCEPT
                  !.intact = FALSE,
                  !.fire = IF kind = "cut" THEN Take(@, IV_SIZE - 6)
                           ELSE [@ EXCEPT ![Len(@)] = (@ + 1) % 256]]
    /\ last' = [op |-> "damage", kind |-> kind]
    /\ UNCHANGED <<peers, data_store, lifecycle, sweep, now, scope, calls>>

\* decrypt_file(encrypted_file, key, output_path)
DecryptFile(key) ==
    /\ disk.state = "encrypted"
    /\ LET r == decrypt_file(disk.fire, key)
       IN  /\ disk' = IF r.ok
                      THEN [disk EXCEPT !.out = [exists |-> TRUE, bytes |-> r.val]]
                      ELSE disk
           /\ last' = [op |-> "decrypt_file", key |-> key, error |-> r.error]
    /\ UNCHANGED <<peers, data_store, lifecycle, sweep, now, scope, calls>>

(***************************************************************************)
(* The links scope: magnet links are generated for the ids and keys of     *)
(* encrypted files, and a user passes a generated link, or any other text, *)
(* to parse_magnet_link.                                                   *)
(***************************************************************************)
Key3 == [i \in 1..KEY_SIZE |-> 251 + (i % 5)]
Key33 == [i \in 1..(KEY_SIZE + 1) |-> i]
\* calculate_file_hash of two files
LinkIds ==
    IF scope = "links"
    THEN {calculate_file_hash(<<>>, CHUNK_SIZE), calculate_file_hash(<<7>>, CHUNK_SIZE)}
    ELSE {}
LinkKeys == {Key1, Key2, Key3}

Id1 == calculate_file_hash(<<7>>, CHUNK_SIZE)
\* texts that are no generated link: another scheme; an id of 63 and of 65
\* characters; an id of 64 characters that are no hex digits, and one in
\* upper case; key segments that are no base64, that hold a character
\* outside the alphabet, and that decode to 31 and to 33 bytes; a third
\* field; text after the key; nothing after the scheme; the empty text
UserLinks ==
    IF scope = "links"
    THEN {<<"h", "t", "t", "p">> \o SchemeSep \o Id1 \o <<"#">> \o b64encode(Key1),
          Scheme \o Take(Id1, HASH_LENGTH - 1) \o <<"#">> \o b64encode(Key1),
          Scheme \o Id1 \o <<"0">> \o <<"#">> \o b64encode(Key1),
          Scheme \o [i \in 1..HASH_LENGTH |-> "z"] \o <<"#">> \o b64encode(Key1),
          Scheme \o [i \in 1..HASH_LENGTH |-> "A"] \o <<"#">> \o b64encode(Key1),
          Scheme \o Id1 \o <<"#">> \o <<"!", "!", "!", "!">>,
          Scheme \o Id1 \o <<"#">> \o <<"!">> \o b64encode(Key1),
          Scheme \o Id1 \o <<"#">> \o b64encode(KeyShort),
          Scheme \o Id1 \o <<"#">> \o b64encode(Key33),
          Scheme \o Id1 \o <<"#">> \o Take(b64encode(Key1), 43),
          generate_magnet_link(Id1, Key1) \o <<"#", "x">>,
          generate_magnet_link(Id1, Key1) \o SchemeSep \o <<"x">>,
          generate_magnet_link(Id1, Key1) \o <<"x">>,
          Scheme,
          <<>>}
    ELSE {}

\* generate_magnet_link(file_hash, key)
GenerateLink(file_hash, key) ==
    /\ last' = [op |-> "generate_magnet_link", file_hash |-> file_hash,
                key |-> key, link |-> generate_magnet_link(file_hash, key)]
    /\ UNCHANGED <<peers, data_store, lifecycle, sweep, now, env, calls>>

\* the links a user holds: the one just generated and the texts above
HeldLinks ==
    (IF last.op = "generate_magnet_link" THEN {last.link} ELSE {}) \cup UserLinks

\* parse_magnet_link(magnet_link)
ParseLink(magnet_link) ==
    /\ LET r == parse_magnet_link(magnet_link)
       IN  last' = [op |-> "parse_magnet_link", magnet_link |-> magnet_link,
                    error |-> r.error, file_hash |-> r.file_hash, key |-> r.key]
    /\ UNCHANGED <<peers, data_store, lifecycle, sweep, now, env, calls>>

(***************************************************************************)
(* The hashes scope: files and byte strings are hashed, again and again,   *)
(* and digests are verified.                                               *)
(***************************************************************************)
\* what is hashed
HashData ==
    IF scope = "hashes"
    THEN {<<>>, <<1>>, <<1, 2>>, <<2, 1>>, [i \in 1..20 |-> i]}
    ELSE {}
\* the chunk_size argument: the default, and two that cut the longest file
\* into several chunks
ChunkSizes == {CHUNK_SIZE, 1, 3}
Salt1 == [i \in 1..DIGEST_SIZE |-> i]
Salt2 == [i \in 1..DIGEST_SIZE |-> DIGEST_SIZE + 1 - i]
\* the caller's salt, or what os.urandom(32) gives
Salts == {Salt1, Salt2}
\* the digests a caller of verify_hash may hold
ExpectedHashes ==
    {anonymous_hash(data, salt).digest : data \in {<<>>, <<1, 2>>}, salt \in Salts}

\* calculate_file_hash(file_path, chunk_size)
HashFile(file, size) ==
    /\ last' = [op |-> "calculate_file_hash", data |-> file,
                chunk_size |-> size,
                result |-> calculate_file_hash(file, size),
                repeat |-> /\ last.op = "calculate_file_hash"
                           /\ last.data = file
                           /\ last.chunk_size # size]
    /\ UNCHANGED <<peers, data_store, lifecycle, sweep, now, env, calls>>

\* anonymous_hash(data, salt): with the caller's salt (given), or with none
\* and the salt from os.urandom
AnonymousHash(bytes, given, urandom) ==
    /\ last' = [op |-> "anonymous_hash", data |-> bytes, given |-> given,
                salt |-> anonymous_hash(bytes, urandom).salt,
                digest |-> anonymous_hash(bytes, urandom).digest]
    /\ UNCHANGED <<peers, data_store, lifecycle, sweep, now, env, calls>>

\* verify_hash(data, salt, expected_hash)
VerifyHash(bytes, s, h) ==
    /\ last' = [op |-> "verify_hash", data |-> bytes, salt |-> s,
                expected_hash |-> h,
                result |-> verify_hash(bytes, s, h)]
    /\ UNCHANGED <<peers, data_store, lifecycle, sweep, now, env, calls>>

(***************************************************************************)
(* Storage (firestrikew/storage.py): one file per id under data/, and the  *)
(* index metadata.json, which a Storage object loads when it is built and  *)
(* rewrites on every store_data and remove_data.                           *)
(***************************************************************************)
\* del d[k]
DictDel(d, k) == [j \in DOMAIN d \ {k} |-> d[j]]

\* json.load of what json.dump wrote for the metadata dict (str keys, int
\* and str values) is that dict; no file is {} and a text that json.load
\* rejects (a file cut short) is {} as well
LoadMetadata(metadata_file) ==
    IF metadata_file.kind = "json" THEN metadata_file.val ELSE <<>>

\* Storage(storage_dir): the object built on the directory as it is
Storage(st) ==
    [st EXCEPT !.running = TRUE, !.metadata = LoadMetadata(st.metadata_file)]

store_data_keeps_entry(st, data_hash, data, salt) ==
    LET metadata == IF Has(st.metadata, data_hash) THEN st.metadata
                    ELSE PutData(st.metadata, data_hash,
                                 [size |-> Len(data), salt |-> hex(salt)])
    IN  [st EXCEPT !.files = PutData(@, data_hash, data),
                   !.metadata = metadata,
                   !.metadata_file = [kind |-> "json", val |-> metadata]]

\* Storage.store_data(data_hash, data, salt), run to its end
store_data(st, data_hash, data, salt) ==
    LET metadata == PutData(st.metadata, data_hash,
                            [size |-> Len(data), salt |-> hex(salt)])
    IN  [st EXCEPT !.files = PutData(@, data_hash, data),
                   !.metadata = metadata,
                   !.metadata_file = [kind |-> "json", val |-> metadata]]

\* where a process can die inside store_data: after open(data_path, 'wb')
\* has emptied the file, after part of the data has reached the file, after
\* the data file is closed, and after open(metadata_file, 'w') has emptied
\* the index or only part of the JSON text has reached it
CrashPoints == {"data_opened", "data_partial", "data_written", "index_partial"}

\* the directory a store_data call leaves that died at point; the object
\* and its metadata dict are gone with the process
store_data_crash(st, data_hash, data, salt, point) ==
    [st EXCEPT
       !.running = FALSE,
       !.metadata = <<>>,
       !.files = PutData(@, data_hash,
                         IF point = "data_opened" THEN <<>>
                         ELSE IF point = "data_partial" THEN Take(data, Len(data) - 1)
                         ELSE data),
       !.metadata_file = IF point = "index_partial" THEN [kind |-> "cut", val |-> <<>>]
                         ELSE @]

\* Storage.get_data(data_hash)
get_data(st, data_hash) ==
    IF ~Has(st.metadata, data_hash) THEN [kind |-> "None"]
    ELSE IF ~Has(st.files, data_hash) THEN [kind |-> "None"]
    ELSE IF ~fromhex(st.metadata[data_hash].salt).ok THEN [kind |-> "None"]
    ELSE [kind |-> "tuple", data |-> st.files[data_hash],
          salt |-> fromhex(st.metadata[data_hash].salt).val]

\* Storage.remove_data(data_hash)
remove_data(st, data_hash) ==
    IF ~Has(st.metadata, data_hash) THEN [st |-> st, result |-> FALSE]
    ELSE LET metadata == DictDel(st.metadata, data_hash)
         IN  [st |-> [st EXCEPT !.files = DictDel(@, data_hash),
                                !.metadata = metadata,
                                !.metadata_file = [kind |-> "json", val |-> metadata]],
              result |-> TRUE]

\* The storage scope: one process at a time uses the directory; it stores,
\* reads and removes, it may die inside store_data, and a new process
\* builds a new Storage on the same directory.
StorageIds == IF scope = "storage" THEN {"h0", "h1"} ELSE {}
\* (data, salt) of the store_data calls
StoragePayloads == {<<<<1, 2>>, <<10>>>>, <<<<3, 4>>, <<11>>>>}
StorageCrashes == IF scope = "storage" THEN CrashPoints ELSE {}
StorageStarts == IF scope = "storage" THEN {"Storage"} ELSE {}

\* the directory before any Storage was built on it
NoStorage ==
    [state |-> "storage", running |-> FALSE, metadata |-> <<>>, files |-> <<>>,
     metadata_file |-> [kind |-> "absent", val |-> <<>>],
     stored |-> <<>>, doubt |-> {}]

\* Storage(storage_dir), in a new process
NewStorage ==
    /\ \/ disk.state = "empty"
       \/ disk.state = "storage" /\ ~disk.running
    /\ disk' = Storage(IF disk.state = "empty" THEN NoStorage ELSE disk)
    /\ last' = [op |-> "Storage"]
    /\ UNCHANGED <<peers, data_store, lifecycle, sweep, now, scope, calls>>

\* the process ends between two calls
ExitStorage ==
    /\ disk.state = "storage"
    /\ disk.running
    /\ disk' = [disk EXCEPT !.running = FALSE, !.metadata = <<>>]
    /\ last' = [op |-> "exit"]
    /\ UNCHANGED <<peers, data_store, lifecycle, sweep, now, scope, calls>>

\* store_data(data_hash, data, salt); stored is the history of the calls
\* that ran to their end: what each id was last stored with and not
\* removed since
StoreData(data_hash, payload) ==
    /\ disk.state = "storage"
    /\ disk.running
    /\ disk' = [store_data(disk, data_hash, payload[1], payload[2]) EXCEPT
                  !.stored = PutData(@, data_hash,
                                     [data |-> payload[1], salt |-> payload[2]])]
    /\ last' = [op |-> "store_data", data_hash |-> data_hash, payload |-> payload,
                again |-> /\ last.op = "store_data"
                          /\ last.data_hash = data_hash
                          /\ last.payload = payload]
    /\ UNCHANGED <<peers, data_store, lifecycle, sweep, now, scope, calls>>

\* store_data(data_hash, data, salt) in a process that dies at point; doubt
\* is the history of the ids whose store_data did not run to its end
StoreDataCrash(data_hash, payload, point) ==
    /\ disk.state = "storage"
    /\ disk.running
    /\ disk' = [store_data_crash(disk, data_hash, payload[1], payload[2], point)
                  EXCEPT !.doubt = @ \cup {data_hash}]
    /\ last' = [op |-> "crash", data_hash |-> data_hash, point |-> point]
    /\ UNCHANGED <<peers, data_store, lifecycle, sweep, now, scope, calls>>

\* get_data(data_hash)
GetData(data_hash) ==
    /\ disk.state = "storage"
    /\ disk.running
    /\ last' = [op |-> "get_data", data_hash |-> data_hash,
                result |-> get_data(disk, data_hash)]
    /\ UNCHANGED <<peers, data_store, lifecycle, sweep, now, env, calls>>

\* remove_data(data_hash)
RemoveData(data_hash) ==
    /\ disk.state = "storage"
    /\ disk.running
    /\ disk' = [remove_data(disk, data_hash).st EXCEPT
                  !.stored = IF Has(@, data_hash) THEN DictDel(@, data_hash) ELSE @]
    /\ last' = [op |-> "remove_data", data_hash |-> data_hash,
                result |-> remove_data(disk, data_hash).result]
    /\ UNCHANGED <<peers, data_store, lifecycle, sweep, now, scope, calls>>

(***************************************************************************)
(* The network scope: the three nodes of the test network (dht_network),   *)
(* each with its own directory and data store, and a front end on each.    *)
(* A request of one node to another is connect_to_peer on the sender's     *)
(* side and handle_connection on the receiver's.  disk holds the nodes;    *)
(* pinged and uploaded are history.  The sweeps are left out: everything   *)
(* happens within PING_INTERVAL of the start of the nodes.                 *)
(***************************************************************************)
NetNodes == IF scope = "network" THEN {"n1", "n2", "n3"} ELSE {}
\* what goes on in the network: the front ends ping, upload and download
\* as in the tests, or a client talks to the nodes with requests of its own
NetStarts == IF scope = "network" THEN {"dht_network", "requests"} ELSE {}

\* the files the front ends upload: one byte, and one whose store request
\* does not fit into a single read
SmallFile == PlainOf(1)
LargeFile == PlainOf(CHUNK_SIZE \div 2)
NetFiles == IF scope = "network" THEN {"small", "large"} ELSE {}
FileBytes(f) == IF f = "small" THEN SmallFile ELSE LargeFile

\* encrypt_and_generate_link: the key of generate_key(), the id of the
\* plaintext (calculate_file_hash, as the one-bit digest of the node model)
\* and the file '<id>.fire' encrypt_file writes
LinkKey == Key1
LinkIV == CHOOSE iv \in IVs : TRUE
SmallCipher == encrypt_file(SmallFile, LinkKey, LinkIV).val
LargeCipher == encrypt_file(LargeFile, LinkKey, LinkIV).val
SmallHex == hex(SmallCipher)
LargeHex == hex(LargeCipher)
SmallId == sha3(SmallFile)
LargeId == sha3(LargeFile)

\* a file whose '.fire' file fits, as hex text, into a store request without
\* sender, while the find response that carries it does not fit into a read
MediumFile == PlainOf(CHUNK_SIZE \div 2 - 6 * BLOCK_SIZE)
MediumCipher == encrypt_file(MediumFile, LinkKey, LinkIV).val
MediumHex == hex(MediumCipher)
MediumId == sha3(MediumFile)

\* the node whose connect_to_peer the client of the "requests" run calls,
\* and the node it talks to
RequestsClient == "n1"
RequestsPeer == "n2"

\* a store request without the optional sender
StoreWithoutSender(h, data) == [type |-> "store", hash |-> h, data |-> data]
FileId(f) == IF f = "small" THEN SmallId ELSE LargeId
FireOf(f) == IF f = "small" THEN SmallCipher ELSE LargeCipher

\* the store message upload_file builds for file f on the front end of a
\* (UploadMessage, with encrypted_data.hex() computed once per file)
StoreMessage(f, a) ==
    [type |-> "store", hash |-> FileId(f),
     data |-> IF f = "small" THEN SmallHex ELSE LargeHex, sender |-> a]

\* len(json.dumps(m).encode()) of a protocol message or response, for ids
\* of 64 characters and onion addresses of 62: the text around the payload
\* plus the payload; errors stay under 200 bytes
json_dumps_len(m) ==
    CASE m.type = "ping" -> 92
      [] m.type = "get_peers" -> 97
      [] m.type = "find" -> 168
      [] m.type = "store" /\ Has(m, "sender") -> 181 + Len(m.data)
      [] m.type = "store" /\ ~Has(m, "sender") -> 105 + Len(m.data)
      [] m.type = "pong" -> 109
      [] m.type = "store_response" -> 118
      [] m.type = "find_response" /\ m.status = "found" -> 132 + Len(m.data)
      [] m.type = "find_response" /\ m.status # "found" ->
            135 + (IF m.peers = <<>> THEN 2 ELSE 66 * Len(m.peers))
      [] OTHER -> 200

\* a read that waits for the end of the stream
read_to_eof(sent) == sent

\* await reader.read(self.CHUNK_SIZE) on a connection over which sent
\* bytes arrive: the number of bytes returned
read(sent) == IF sent < CHUNK_SIZE THEN sent ELSE CHUNK_SIZE

\* json.loads of the first got bytes of the encoding of the object m: a
\* proper prefix of the text of an object is no JSON text
json_loads(m, got) ==
    IF got = json_dumps_len(m) THEN [ok |-> TRUE, val |-> m]
    ELSE [ok |-> FALSE, val |-> <<>>]

\* handle_connection: the response r of process_message is written
handle_connection_write(r) ==
    [written |-> TRUE, resp |-> r.resp, peers |-> r.peers, data_store |-> r.data_store]

\* handle_connection from json.loads on: message is what json.loads made of
\* the bytes read
handle_connection_loaded(self, message) ==
    IF ~message.ok
    THEN [written |-> FALSE, resp |-> NoResponse,
          peers |-> self.peers, data_store |-> self.data_store]
    ELSE handle_connection_write(process_message_of(self, message.val))

\* FireStrikeNode.handle_connection of node self for the request m of a peer
handle_connection_of(self, m) ==
    handle_connection_loaded(self, json_loads(m, read(json_dumps_len(m))))

\* what connect_to_peer returns when it gives nothing back
None == [type |-> "None", status |-> "None"]

\* connect_to_peer from its read on: r is what handle_connection of the
\* peer did with the request
connect_to_peer_read(r) ==
    LET response == IF r.written THEN json_loads(r.resp, read(json_dumps_len(r.resp)))
                    ELSE [ok |-> FALSE, val |-> <<>>]
    IN  [response |-> IF response.ok THEN response.val ELSE None,
         written |-> r.written,
         peers |-> r.peers, data_store |-> r.data_store]

\* FireStrikeNode.connect_to_peer(peer_onion, message) where peer is the
\* node behind peer_onion: the value returned and the state the request
\* leaves at the peer.  A refused connection, an empty answer and an answer
\* cut by the single read all end in "except Exception: return None".
connect_to_peer(peer, message) ==
    IF ~peer.up
    THEN [response |-> None, written |-> FALSE,
          peers |-> peer.peers, data_store |-> peer.data_store]
    ELSE connect_to_peer_read(handle_connection_of(peer, message))

\* a response as upload_file and download_file look at it
Answer(response) ==
    IF response = None THEN [kind |-> "None"]
    ELSE [kind |-> "dict", status |-> response.status,
          data |-> IF Has(response, "data") THEN response.data ELSE <<>>]

\* the nodes after dht_network has created them
NoNetwork == [state |-> "empty"]
NewNode(n) ==
    [peers |-> <<>>, data_store |-> <<>>, onion_address |-> n,
     max_peers |-> MAX_PEERS, up |-> TRUE]

\* every node knows both others
MutuallyAware ==
    \A n \in NetNodes : PeerAddrs(disk.node[n].peers) = NetNodes \ {n}

\* the node n with the directory and the data store a request left
After(n, r) == [disk.node[n] EXCEPT !.peers = r.peers, !.data_store = r.data_store]

\* dht_network: three nodes
NewNetwork(c) ==
    /\ disk = NoNetwork
    /\ disk' = [state |-> "network", run |-> c,
                node |-> [n \in NetNodes |-> NewNode(n)],
                pinged |-> {}, uploaded |-> <<>>]
    /\ last' = [op |-> c]
    /\ UNCHANGED <<peers, data_store, lifecycle, sweep, now, scope, calls>>

\* the requests one node sends to another outside the front end: the ping
\* of dht_network and a find for an id that was uploaded; or, as a client of
\* its own, stores without sender and the find for what they stored
NetRequests(a) ==
    IF disk.state # "network" THEN {}
    ELSE IF disk.run = "requests"
    THEN IF a # RequestsClient THEN {}
         ELSE {StoreWithoutSender(MediumId, MediumHex),
               StoreWithoutSender(LargeId, LargeHex),
               DownloadMessage(MediumId, a)}
    ELSE (IF disk.uploaded = <<>> THEN {[type |-> "ping", sender |-> a]} ELSE {})
         \cup {DownloadMessage(FileId(f), a) : f \in DOMAIN disk.uploaded}

\* what the call a.connect_to_peer(b, message) with outcome r leaves
Connected(a, b, message, r) ==
    /\ disk' = [disk EXCEPT
           !.node[b] = After(b, r),
           !.pinged = IF message.type = "ping" /\ r.response.status = "ok"
                      THEN @ \cup {<<a, b>>} ELSE @]
    /\ last' = [op |-> "connect_to_peer", from |-> a, to |-> b,
                message |-> message, written |-> r.written,
                response |-> r.response]

\* await a.connect_to_peer(b, message)
ConnectToPeer(a, b, message) ==
    /\ disk.state = "network"
    /\ a # b
    /\ disk.node[a].up
    /\ disk.run = "requests" => b = RequestsPeer
    /\ Connected(a, b, message, connect_to_peer(disk.node[b], message))
    /\ UNCHANGED <<peers, data_store, lifecycle, sweep, now, scope, calls>>

\* FireStrikeCLI.get_peers of the front end of node a
net_get_peers(a) ==
    peers_of_response(process_message_of(disk.node[a], [type |-> "get_peers", sender |-> a]))

\* upload_file after its loop: g is what get_peers gave, r what
\* connect_to_peer gave for each of the targets
upload_file_sent(a, f, g, targets, r) ==
    /\ disk' = [disk EXCEPT
           !.node = [n \in NetNodes |->
                       IF n = a THEN After(a, g)
                       ELSE IF n \in Range(targets) THEN After(n, r[n])
                       ELSE disk.node[n]],
           !.uploaded = PutData(@, f, a)]
    /\ last' = [op |-> "upload_file", at |-> a, file |-> f,
                file_hash |-> FileId(f), targets |-> targets,
                success_count |-> Cardinality(
                    {t \in Range(targets) :
                        store_outcome(Answer(r[t].response)) = "count"})]

\* upload_file: the loop over peers[:3]
upload_file_loop(a, f, g, targets) ==
    upload_file_sent(a, f, g, targets,
        [t \in Range(targets) |-> connect_to_peer(disk.node[t], StoreMessage(f, a))])

\* upload_file from "peers = await self.get_peers()" on
upload_file_peers(a, f, g) == upload_file_loop(a, f, g, upload_targets(g.list))

\* upload_file(file) on the front end of node a, in a network where every
\* node knows the others and nothing else goes on: the store request goes to
\* peers[:3], one peer after the other
NetUpload(a, f) ==
    /\ disk.state = "network"
    /\ MutuallyAware
    /\ \A n \in NetNodes : disk.node[n].up
    /\ ~Has(disk.uploaded, f)
    /\ upload_file_peers(a, f, net_get_peers(a))
    /\ UNCHANGED <<peers, data_store, lifecycle, sweep, now, scope, calls>>

\* await node.stop() for one node of the network: the listener is closed,
\* the directory and the data store stay as they are
NetStop(n) ==
    /\ disk.state = "network"
    /\ disk.uploaded # <<>>
    /\ \A k \in NetNodes : disk.node[k].up
    /\ disk' = [disk EXCEPT !.node[n].up = FALSE]
    /\ last' = [op |-> "node_stop", node |-> n]
    /\ UNCHANGED <<peers, data_store, lifecycle, sweep, now, scope, calls>>

RECURSIVE download_loop(_, _)
\* the body of the loop of download_file for the response of one peer
download_response(list, message, response, o) ==
    IF o = "next" THEN download_loop(Tail(list), message)
    ELSE [outcome |-> o,
          data |-> IF o = "found" THEN fromhex(response.data).val ELSE <<>>]

\* one peer of the loop of download_file, asked through connect_to_peer
download_peer(list, message, response) ==
    download_response(list, message, response, find_outcome(response))

\* the loop of download_file over the peers of the list: the first answer
\* that is found, raises or is empty ends it
download_loop(list, message) ==
    IF list = <<>> THEN [outcome |-> "next", data |-> <<>>]
    ELSE download_peer(list, message,
             Answer(connect_to_peer(disk.node[Head(list)], message).response))

\* download_file after decrypt_file: what it returns or raises
download_file_decrypted(a, f, g, found, decrypted) ==
    /\ disk' = [disk EXCEPT !.node[a] = After(a, g)]
    /\ last' = [op |-> "download_file", at |-> a, file |-> f,
                file_hash |-> FileId(f),
                result |-> IF found.outcome # "found" \/ ~decrypted.ok
                           THEN [ok |-> FALSE, bytes |-> <<>>]
                           ELSE [ok |-> TRUE, bytes |-> decrypted.val]]

\* download_file after its loop over the peers
download_file_found(a, f, g, found) ==
    download_file_decrypted(a, f, g, found, decrypt_file(found.data, LinkKey))

\* download_file from "peers = await self.get_peers()" on
download_file_peers(a, f, g) ==
    download_file_found(a, f, g, download_loop(g.list, DownloadMessage(FileId(f), a)))

\* download_file(link) on the front end of node a for the link of an
\* uploaded file: the bytes of the decrypted file, or CLIError
NetDownload(a, f) ==
    /\ disk.state = "network"
    /\ Has(disk.uploaded, f)
    /\ disk.node[a].up
    /\ download_file_peers(a, f, net_get_peers(a))
    /\ UNCHANGED <<peers, data_store, lifecycle, sweep, now, scope, calls>>

Next ==
    \/ \E w \in WireInputs : Connection(w)
    \/ \E d \in TimeSteps : Tick(d)
    \/ SweepStart
    \/ \E answer \in PingAnswers : SweepPing(answer)
    \/ \E outcome \in StartOutcomes : Start(outcome)
    \/ \E c \in StopCalls : Stop
    \/ TaskCancelled
    \/ CleanupCloseServer
    \/ CleanupRelease
    \/ GetPeers
    \/ \E h \in UploadIds, outcome \in StartOutcomes : InitNodeBy("upload", outcome)
    \/ \E h \in DownloadIds, outcome \in StartOutcomes : InitNodeBy("download", outcome)
    \/ \E h \in UploadIds : Upload(h)
    \/ \E r \in StoreAnswers : UploadAnswer(r)
    \/ \E h \in DownloadIds : Download(h)
    \/ \E r \in FindAnswers : DownloadAnswer(r)
    \/ \E n \in PlainLengths, key \in EncryptKeys, iv \in IVs : EncryptFile(n, key, iv)
    \/ \E kind \in Damages : Damage(kind)
    \/ \E key \in DecryptKeys : DecryptFile(key)
    \/ \E file_hash \in LinkIds, key \in LinkKeys : GenerateLink(file_hash, key)
    \/ \E magnet_link \in HeldLinks : ParseLink(magnet_link)
    \/ \E file \in HashData, size \in ChunkSizes : HashFile(file, size)
    \/ \E bytes \in HashData, given \in BOOLEAN, urandom \in Salts :
          AnonymousHash(bytes, given, urandom)
    \/ \E bytes \in HashData, s \in Salts, h \in ExpectedHashes :
          VerifyHash(bytes, s, h)
    \/ \E c \in StorageStarts : NewStorage
    \/ \E c \in StorageStarts : ExitStorage
    \/ \E data_hash \in StorageIds, payload \in StoragePayloads :
          StoreData(data_hash, payload)
    \/ \E data_hash \in StorageIds, payload \in StoragePayloads,
          point \in StorageCrashes : StoreDataCrash(data_hash, payload, point)
    \/ \E data_hash \in StorageIds : GetData(data_hash)
    \/ \E data_hash \in StorageIds : RemoveData(data_hash)
    \/ \E c \in NetStarts : NewNetwork(c)
    \/ \E a \in NetNodes, b \in NetNodes :
          \E message \in NetRequests(a) : ConnectToPeer(a, b, message)
    \/ \E a \in NetNodes, f \in NetFiles : NetUpload(a, f)
    \/ \E n \in NetNodes : NetStop(n)
    \/ \E a \in NetNodes, f \in NetFiles : NetDownload(a, f)

Spec == Init /\ [][Next]_vars

(***************************************************************************)
(* Properties.                                                             *)
(***************************************************************************)
\* the last event was an inbound connection carrying a JSON object of type t
Handled(t) ==
    /\ last.op = "connection"
    /\ last.kind = "json"
    /\ IsDict(last.msg)
    /\ MessageType(last.msg) = t

Fresh(r, t) == ~(t - r.last_seen > PEER_TIMEOUT)

\* C1: the directory never holds more than max_peers entries; a ping from
\* an unknown sender to a full directory changes nothing; a ping from a
\* known sender changes only the last_seen of that sender's record.
C1_DirectoryBounded ==
    [][ /\ Len(peers') <= max_peers
        /\ (Handled("ping")' /\ Truthy(last'.msg, "sender")) =>
             /\ last'.resp.status = "ok"
             /\ (last'.msg.sender \notin PeerAddrs(peers) /\ Len(peers) = max_peers)
                   => peers' = peers
             /\ last'.msg.sender \in PeerAddrs(peers) =>
                   /\ Len(peers') = Len(peers)
                   /\ \A i \in DOMAIN peers :
                        peers'[i] =
                          IF peers[i].onion_address = last'.msg.sender
                          THEN [peers[i] EXCEPT !.last_seen = now]
                          ELSE peers[i]
      ]_vars

\* a ping from a new sender was answered while the directory was full
C1_Witness ==
    /\ Handled("ping")
    /\ Truthy(last.msg, "sender")
    /\ last.msg.sender \notin PeerAddrs(peers)
    /\ Len(peers) = max_peers
    /\ last.resp.status = "ok"

\* cleanup_peers has run in the last step: at the start of handle_get_peers,
\* or at the end of a liveness sweep
CleanupRan ==
    \/ Handled("get_peers")
    \/ last.op = "cli_get_peers"
    \/ last.op = "sweep_start" /\ ping_task = "sleeping"
    \/ last.op = "sweep_ping" /\ ping_task = "sleeping" /\ last.answer # "other"

\* C2: after cleanup_peers no peer is left whose last_seen is more than
\* PEER_TIMEOUT ago, and every peer that was not that old is still there
\* with the same record (but for the peer a sweep has just dropped because
\* it did not answer ok).
C2_CleanupEvictsExactlyStale ==
    [][ CleanupRan' =>
          /\ \A j \in DOMAIN peers' : Fresh(peers'[j], now')
          /\ \A i \in DOMAIN peers :
               (/\ Fresh(peers[i], now)
                /\ ~(/\ last'.op = "sweep_ping"
                     /\ last'.answer # "ok"
                     /\ last'.peer = peers[i].onion_address))
               => \E j \in DOMAIN peers' : peers'[j] = peers[i]
      ]_vars

\* a get_peers request evicted a stale peer and kept another one
C2_Witness ==
    /\ Handled("get_peers")
    /\ last.dropped # {}
    /\ peers # <<>>

\* C3: an ok answer of a directory peer to the liveness ping sets that
\* peer's last_seen to the current time (so it is not evicted as stale).
C3_OkAnswerRefreshes ==
    [][ (/\ last'.op = "sweep_ping"
         /\ last'.answer = "ok"
         /\ last'.peer \in PeerAddrs(peers))
        => /\ last'.peer \in PeerAddrs(peers')
           /\ PeerOf(peers', last'.peer).last_seen = now'
      ]_vars

\* the payload of the store request the node has just handled decoded to
\* bytes whose digest is not the content id of the request
StoreMismatch ==
    /\ Handled("store")
    /\ Truthy(last.msg, "hash")
    /\ TruthyText(last.msg, "data")
    /\ b64decode(last.msg.data).ok
    /\ sha3(b64decode(last.msg.data).val) # last.msg.hash

\* C4: a store request whose content id is not the hash of its payload is
\* answered with an error and changes neither the store nor the directory.
C4_StoreVerifiesHash ==
    [][ StoreMismatch' =>
          /\ last'.resp.type = "error"
          /\ data_store' = data_store
          /\ peers' = peers
      ]_vars

\* C5: a store request without content id or without data is answered with
\* an error and changes neither the data store nor the peer directory.
C5_StoreMissingField ==
    [][ (/\ Handled("store")'
         /\ (~Truthy(last'.msg, "hash") \/ ~TruthyText(last'.msg, "data")))
        => /\ last'.written
           /\ last'.resp.type = "error"
           /\ data_store' = data_store
           /\ peers' = peers
      ]_vars

\* a store request without data, whose sender is in the directory, was
\* answered with an error
C5_Witness ==
    /\ Handled("store")
    /\ Truthy(last.msg, "hash")
    /\ ~TruthyText(last.msg, "data")
    /\ Has(last.msg, "sender")
    /\ last.msg.sender \in PeerAddrs(peers)
    /\ last.resp.type = "error"

\* C6: a find for id h is answered found, with the stored payload, exactly
\* when the data store holds an object under h, and otherwise not_found
\* with the addresses of the peers known to hold h; without id, an error.
C6_FindFoundIffStored ==
    Handled("find") =>
        IF ~Truthy(last.msg, "hash") THEN last.resp.type = "error"
        ELSE IF last.msg.hash \in DOMAIN data_store
        THEN /\ last.resp.status = "found"
             /\ last.resp.data = b64encode(data_store[last.msg.hash])
        ELSE /\ last.resp.status = "not_found"
             /\ Range(last.resp.peers) =
                  {peers[i].onion_address : i \in
                      {j \in DOMAIN peers : last.msg.hash \in peers[j].shared_files}}

\* the node has just accepted the store request upload_file sends for
\* Cipher1
UploadAccepted ==
    /\ Handled("store")
    /\ Has(last.msg, "hash") /\ Has(last.msg, "sender") /\ Has(last.msg, "data")
    /\ last.msg = UploadMessage(last.msg.hash, Cipher1, last.msg.sender)
    /\ last.resp.status = "ok"

\* C7: after the node accepts the store request of upload_file for ciphertext
\* C under id h, the bytes it holds under h are C.
C7_StoreByteTransparent ==
    UploadAccepted => data_store[last.msg.hash] = Cipher1

\* C8: a message of a type other than ping, store, find and get_peers (or of
\* no type) is answered with the error unknown_message_type, and the
\* directory and the store are unchanged.
C8_UnknownType ==
    [][ (/\ last'.op = "connection"
         /\ last'.kind = "json"
         /\ IsDict(last'.msg)
         /\ MessageType(last'.msg) \notin {"ping", "store", "find", "get_peers"})
        => /\ last'.written
           /\ last'.resp.type = "error"
           /\ last'.resp.status = "unknown_message_type"
           /\ peers' = peers
           /\ data_store' = data_store
      ]_vars

\* a message without type was answered by a node that knows a peer
C8_Witness ==
    /\ last.op = "connection"
    /\ last.kind = "json"
    /\ IsDict(last.msg)
    /\ ~Has(last.msg, "type")
    /\ last.resp.status = "unknown_message_type"
    /\ peers # <<>>

\* the request the node has just read was malformed: not text, not JSON, not
\* an object, or an object without a field its type requires
Malformed ==
    /\ last.op = "connection"
    /\ \/ last.kind \in {"not_utf8", "not_json"}
       \/ /\ last.kind = "json"
          /\ \/ ~IsDict(last.msg)
             \/ MessageType(last.msg) = "ping" /\ ~Truthy(last.msg, "sender")
             \/ MessageType(last.msg) = "store"
                /\ (~Truthy(last.msg, "hash") \/ ~TruthyText(last.msg, "data"))
             \/ MessageType(last.msg) = "find" /\ ~Truthy(last.msg, "hash")

\* C9: every malformed request gets an error response before the connection
\* is closed.
C9_MalformedAnswered ==
    Malformed => last.closed /\ last.written /\ last.resp.type = "error"

\* C10: stop() raises nothing and leaves the node stopped, whatever the
\* state it is called in; a second stop() changes nothing.
C10_StopIdempotent ==
    [][ last'.op = "stop" =>
          /\ ~last'.raised
          /\ ~is_running'
          /\ ping_task' \notin {"sleeping", "pinging"}
          /\ last'.phase = "done" =>
               /\ ping_task' # "cancelling"
               /\ server' # "serving"
               /\ controller' # "open"
               /\ tor_process' # "running"
          /\ last'.n = 2 =>
               UNCHANGED <<peers, data_store, lifecycle, sweep>>
      ]_vars

\* stop() was called again on a node that had been running, and has returned
C10_Witness ==
    /\ last.op = "stop"
    /\ last.phase = "done"
    /\ last.n = 2
    /\ tor_process = "killed"
    /\ server = "closed"
    /\ ping_task = "cancelled"

\* C11: while the node is stopped, a message dispatched through
\* process_message and the get_peers of the front end fail with a
\* not-running error and change neither the directory nor the store.
C11_StoppedRejects ==
    [][ (/\ ~is_running
         /\ \/ last'.op = "cli_get_peers"
            \/ /\ last'.op = "connection"
               /\ last'.kind = "json"
               /\ IsDict(last'.msg))
        => /\ last'.resp.type = "error"
           /\ last'.resp.status = "not_running"
           /\ peers' = peers
           /\ data_store' = data_store
      ]_vars

\* C12: cleanup closes the listener and releases the Tor controller and
\* process only after the liveness task it cancelled has ended, and a
\* cancelled liveness task makes no further step of a sweep.
C12_TaskEndsBeforeClose ==
    [][ /\ (\/ server = "serving" /\ server' = "closed"
            \/ controller = "open" /\ controller' = "closed"
            \/ tor_process = "running" /\ tor_process' = "killed")
           => ping_task \in {"none", "cancelled"}
        /\ ping_task \in {"cancelling", "cancelled"}
           => /\ last'.op \notin {"sweep_start", "sweep_ping"}
              /\ ping_task' \in {"cancelling", "cancelled"}
      ]_vars

\* stop() has closed the listener of a node that knew a peer, after its
\* liveness task had ended and before Tor is released
C12_Witness ==
    /\ cleanup_pc.at = "wait_closed"
    /\ cleanup_pc.by.op = "stop"
    /\ ping_task = "cancelled"
    /\ server = "closed"
    /\ tor_process = "running"
    /\ peers # <<>>

\* C13: start() on a stopped node returns to its caller with the node
\* running: address set, listener serving, is_running true and the liveness
\* task scheduled.
C13_StartReturnsRunning ==
    [][ (last'.op = "start" /\ last'.outcome = "ok") =>
          /\ onion_address' = OwnAddress
          /\ server' = "serving"
          /\ is_running'
          /\ ping_task' \in {"sleeping", "pinging"}
          /\ start_call'.state = "returned"
      ]_vars

\* the first FanOut entries of a list of addresses
FirstPeers(l) == SubSeq(l, 1, IF Len(l) < FanOut THEN Len(l) ELSE FanOut)
\* no address occurs twice in the list
Distinct(l) == \A i, j \in DOMAIN l : i # j => l[i] # l[j]
\* C14: an upload_file call that has encrypted its file and reached the
\* peers ends by returning the magnet link, whatever the peers answer: it
\* never ends by raising.
C14_UploadSurvivesPeers ==
    (cli.op = "upload" /\ cli.pc = "done") => cli.result = "magnet"

\* C15: once upload_file has returned the magnet link for id h, the node's
\* own store holds the ciphertext under h and a find for h is answered found.
C15_UploadStoresLocally ==
    (cli.op = "upload" /\ cli.pc = "done" /\ cli.result = "magnet")
    => /\ Has(data_store, cli.h)
       /\ data_store[cli.h] = Cipher1
       /\ handle_find(DownloadMessage(cli.h, "a")).resp.status = "found"

\* C16: an upload sends at most FanOut store requests, each to another
\* peer: to the first entries of the directory as get_peers lists it, in
\* insertion order, and to no peer beyond them whatever the answers.
C16_UploadFanOut ==
    [][ /\ last'.op = "upload"
           => /\ cli'.snapshot = last'.directory
              /\ cli'.queue = FirstPeers(last'.directory)
              /\ cli'.contacted = <<>>
        /\ last'.op = "upload_answer"
           => /\ cli'.snapshot = cli.snapshot
              /\ cli'.contacted = Append(cli.contacted, last'.peer)
        /\ cli'.op = "upload"
           => /\ Len(cli'.contacted) <= FanOut
              /\ Distinct(cli'.contacted)
              /\ cli'.contacted =
                   SubSeq(FirstPeers(cli'.snapshot), 1, Len(cli'.contacted))
              /\ cli'.result = "magnet"
                   => cli'.contacted = FirstPeers(cli'.snapshot)
      ]_vars

\* an upload has ended after three failed stores, with a fourth peer in the
\* directory that it did not contact
C16_Witness ==
    /\ cli.op = "upload"
    /\ cli.pc = "done"
    /\ Len(cli.snapshot) > FanOut
    /\ Len(cli.contacted) = FanOut
    /\ cli.count = 0
    /\ last.op = "upload_answer"

\* C17: a download of an id the node's own store holds returns the stored
\* content without sending any find, also when the directory is empty.
C17_DownloadLocalFirst ==
    [][ (last'.op = "download" /\ Has(data_store, last'.h))
        => /\ cli'.pc = "done"
           /\ cli'.result = "ok"
           /\ cli'.contacted = <<>>
           /\ cli'.data = data_store[last'.h]
      ]_vars

\* C18: a download queries the peers of its snapshot one at a time, in
\* insertion order and each at most once; the first found answer ends the
\* queries, and the ciphertext that is decrypted is the one of that answer.
C18_DownloadSequential ==
    [][ /\ cli'.op = "download"
           => /\ Distinct(cli'.contacted)
              /\ cli'.contacted = SubSeq(cli'.snapshot, 1, Len(cli'.contacted))
        /\ last'.op = "download_answer"
           => /\ cli'.snapshot = cli.snapshot
              /\ cli'.contacted = Append(cli.contacted, last'.peer)
              /\ (last'.answer.kind = "dict" /\ last'.answer.status = "found")
                 => /\ cli'.pc = "done"
                    /\ cli'.result = "ok"
                         => cli'.data = fromhex(last'.answer.data).val
              /\ cli'.result = "ok"
                 => last'.answer.kind = "dict" /\ last'.answer.status = "found"
        /\ (cli.op = "download" /\ cli.pc = "done" /\ cli'.op = "download"
              /\ last'.op # "download")
           => cli' = cli
      ]_vars

\* a download has ended with the ciphertext of the second peer of a
\* snapshot of four, for an id the node does not hold
C18_Witness ==
    /\ cli.op = "download"
    /\ cli.pc = "done"
    /\ cli.result = "ok"
    /\ ~cli.local
    /\ Len(cli.snapshot) = 4
    /\ Len(cli.contacted) = 2
    /\ cli.data = Cipher1

\* C19: a download terminates: it waits only for finds, each bounded by the
\* timeout of connect_to_peer, never for a call that does not return, and
\* when it ends without a found answer it has failed and returned no data.
C19_DownloadTerminates ==
    /\ ~(start_call.state = "serve_forever" /\ start_call.by = "download")
    /\ (cli.op = "download" /\ cli.pc = "done" /\ cli.result # "ok")
       => cli.result = "CLIError" /\ cli.data = <<>>

\* C20: a download fails only after it has queried every peer of its
\* snapshot and every peer that a not_found answer named as a holder.
C20_DownloadExhausts ==
    [][ (/\ last'.op \in {"download", "download_answer"}
         /\ cli'.pc = "done"
         /\ cli'.result = "CLIError")
        => /\ Range(cli'.snapshot) \subseteq Range(cli'.contacted)
           /\ (/\ last'.op = "download_answer"
               /\ last'.answer.kind = "dict"
               /\ last'.answer.status = "not_found")
              => Range(last'.answer.peers) \subseteq Range(cli'.contacted)
      ]_vars

\* the answer is one a peer that has the content gives to a well-formed
\* find: found, with the hex text of the ciphertext
GoodFound(r) ==
    /\ r.kind = "dict"
    /\ r.status = "found"
    /\ fromhex(r.data).ok
    /\ fromhex(r.data).val # <<>>

\* C21: no answer of a peer (none, an error status, a malformed or an
\* incomplete one) ends the upload fan-out, the download search or the
\* liveness sweep before the remaining peers are contacted, and none makes
\* upload_file or download_file raise.
C21_PeerFailureSkipped ==
    [][ /\ last'.op = "upload_answer"
           => /\ cli'.result # "CLIError"
              /\ cli.queue # <<last'.peer>> => cli'.pc = "fanout"
        /\ (last'.op = "download_answer" /\ ~GoodFound(last'.answer))
           => (cli.queue # <<last'.peer>>
                 => cli'.pc = "search" /\ cli'.result = "pending")
        /\ (last'.op = "sweep_ping" /\ last'.answer # "ok")
           => (sweep_queue # <<last'.peer>>
                 => ping_task' = "pinging" /\ sweep_queue' = Tail(sweep_queue))
      ]_vars

\* C22: in a sweep the peers of the snapshot are pinged one after the
\* other; a peer that does not answer ok is removed at once, one that
\* answers ok is not removed by the ping; cleanup_peers runs after the last
\* ping, and the task then sleeps for PING_INTERVAL.
C22_SweepPingsAll ==
    [][ /\ last'.op = "sweep_start"
           => \/ ping_task' = "pinging"
                 /\ sweep_queue' = [i \in DOMAIN peers |-> peers[i].onion_address]
              \/ peers = <<>> /\ ping_task' = "sleeping"
                 /\ wake' = now + PING_INTERVAL
        /\ last'.op = "sweep_ping"
           => /\ last'.peer = Head(sweep_queue)
              /\ last'.answer # "ok" => last'.peer \notin PeerAddrs(peers')
              /\ IF Tail(sweep_queue) # <<>>
                 THEN /\ ping_task' = "pinging"
                      /\ sweep_queue' = Tail(sweep_queue)
                      /\ peers' = IF last'.answer # "ok"
                                  THEN RemovePeer(peers, last'.peer) ELSE peers
                 ELSE /\ ping_task' = "sleeping"
                      /\ wake' = now + PING_INTERVAL
                      /\ peers' = cleanup_peers(
                                    IF last'.answer # "ok"
                                    THEN RemovePeer(peers, last'.peer) ELSE peers,
                                    now)
      ]_vars

\* C23: a ping that carries a sender address is answered with status ok
\* and the address of the node, also when the directory is full and the
\* sender is not admitted; a ping without sender is answered with an error
\* and changes neither the directory nor the store.
C23_PingAlwaysAnswered ==
    [][ Handled("ping")' =>
          /\ last'.written
          /\ IF Truthy(last'.msg, "sender")
             THEN /\ last'.resp.type = "pong"
                  /\ last'.resp.status = "ok"
                  /\ last'.resp.address = onion_address
                  /\ onion_address = OwnAddress
             ELSE /\ last'.resp.type = "error"
                  /\ peers' = peers
                  /\ data_store' = data_store
      ]_vars

\* the ping of a sender that a full directory did not admit was answered
\* with ok and the node's address
C23_Witness ==
    /\ Handled("ping")
    /\ Truthy(last.msg, "sender")
    /\ last.msg.sender \notin PeerAddrs(peers)
    /\ Len(peers) = max_peers
    /\ last.resp = [type |-> "pong", status |-> "ok", address |-> OwnAddress]

\* C24: a get_peers request is answered with status ok in every directory
\* state, and lists exactly the peers that are not stale at the request, in
\* insertion order, each with its address and its known content ids.
C24_GetPeersAlwaysOk ==
    [][ Handled("get_peers")' =>
          LET fresh == cleanup_peers(peers, now) IN
          /\ last'.written
          /\ last'.resp.type = "peers_response"
          /\ last'.resp.status = "ok"
          /\ Len(last'.resp.peers) = Len(fresh)
          /\ \A i \in DOMAIN fresh :
               /\ last'.resp.peers[i].address = fresh[i].onion_address
               /\ last'.resp.peers[i].shared_files = fresh[i].shared_files
      ]_vars

\* the content ids the directory p records for the peer with address a
HeldBy(p, a) == IF a \in PeerAddrs(p) THEN PeerOf(p, a).shared_files ELSE {}

\* C25: an id h enters the known-content set of peer P only in the step in
\* which the node accepts a store request for h sent by P, with P in the
\* directory; a not_found answer for h lists only peers recorded as holding
\* h; a store request of a sender outside the directory adds no peer.
C25_HoldersFromStores ==
    [][ /\ \A a \in PeerAddrs(peers') :
             \A h \in HeldBy(peers', a) \ HeldBy(peers, a) :
                /\ Handled("store")'
                /\ last'.resp.status = "ok"
                /\ last'.msg.hash = h
                /\ last'.msg.sender = a
                /\ a \in PeerAddrs(peers)
        /\ (Handled("find")' /\ last'.resp.status = "not_found")
           => \A i \in DOMAIN last'.resp.peers :
                 last'.msg.hash \in HeldBy(peers, last'.resp.peers[i])
        /\ Handled("store")'
           => [i \in DOMAIN peers' |-> peers'[i].onion_address]
                = [i \in DOMAIN peers |-> peers[i].onion_address]
      ]_vars

\* a find was answered not_found with the one peer whose store request for
\* that id the node had accepted
C25_Witness ==
    /\ Handled("find")
    /\ last.resp.status = "not_found"
    /\ last.resp.peers # <<>>
    /\ \A i \in DOMAIN last.resp.peers :
          last.msg.hash \in HeldBy(peers, last.resp.peers[i])

\* the bytes the PKCS7 unpadder would be left with at the end of the file
\* decrypt_file reads under key
FinalBlock(encrypted, key) ==
    LET n == ((Len(encrypted) - IV_SIZE) \div BLOCK_SIZE) * BLOCK_SIZE
    IN  IF n <= 0 THEN <<>>
        ELSE cbc_decrypt(key, SubSeq(encrypted, n - BLOCK_SIZE + 1, n),
                         SubSeq(encrypted, n + 1, n + BLOCK_SIZE))

\* C26: decrypting the file encrypt_file wrote for a plaintext P under a
\* 32-byte key K, with the same K, raises nothing and writes exactly P,
\* whatever the length of P
C26_DecryptInvertsEncrypt ==
    [][(/\ last'.op = "decrypt_file"
        /\ disk.intact
        /\ last'.key = disk.key)
       => (/\ last'.error = "none"
           /\ disk'.out = [exists |-> TRUE, bytes |-> disk.plain])]_vars

\* C27: decrypt_file raises DecryptionError, and writes no output, when the
\* file is shorter than the IV, when the key is not 32 bytes long, and when
\* the final block does not end with a valid padding
C27_DecryptRejects ==
    [][(/\ last'.op = "decrypt_file"
        /\ \/ Len(disk.fire) < IV_SIZE
           \/ Len(last'.key) # KEY_SIZE
           \/ ~unpadder_finalize(FinalBlock(disk.fire, last'.key)).ok)
       => (/\ last'.error = "DecryptionError"
           /\ disk'.out = disk.out)]_vars

LowerHex(s) == \A i \in DOMAIN s : s[i] \in Range(HexChars)

\* the text is firestrike:// + 64 lowercase hex characters + # + the base64
\* of 32 bytes, and nothing else
ExactLink(text) ==
    /\ Len(text) > Len(Scheme) + HASH_LENGTH
    /\ Take(text, Len(Scheme)) = Scheme
    /\ LowerHex(SubSeq(text, Len(Scheme) + 1, Len(Scheme) + HASH_LENGTH))
    /\ text[Len(Scheme) + HASH_LENGTH + 1] = "#"
    /\ LET seg == Drop(text, Len(Scheme) + HASH_LENGTH + 1)
       IN  /\ \A i \in DOMAIN seg : IsB64Char(seg[i]) \/ seg[i] = "="
           /\ b64decode(seg).ok
           /\ Len(b64decode(seg).val) = KEY_SIZE
           /\ b64encode(b64decode(seg).val) = seg

\* C28: the link generated for a 64-hex-character id and a 32-byte key is
\* firestrike://<id>#<base64 key> with a non-empty key segment and exactly
\* one '#', and parse_magnet_link gives back exactly that id and that key
C28_LinkRoundTrip ==
    [][/\ last'.op = "generate_magnet_link"
          => /\ startswith(last'.link, Scheme)
             /\ SubSeq(last'.link, Len(Scheme) + 1, Len(Scheme) + HASH_LENGTH)
                  = last'.file_hash
             /\ last'.link[Len(Scheme) + HASH_LENGTH + 1] = "#"
             /\ Len(last'.link) > Len(Scheme) + HASH_LENGTH + 1
             /\ Len(SelectSeq(last'.link, LAMBDA c : c = "#")) = 1
       /\ (/\ last.op = "generate_magnet_link"
           /\ last'.op = "parse_magnet_link"
           /\ last'.magnet_link = last.link)
          => /\ last'.error = "none"
             /\ last'.file_hash = last.file_hash
             /\ last'.key = last.key]_vars

C28_Witness ==
    /\ last.op = "parse_magnet_link"
    /\ last.error = "none"
    /\ last.key = Key3
    /\ LowerHex(last.file_hash)
    /\ last.magnet_link = generate_magnet_link(last.file_hash, Key3)

\* C29: parse_magnet_link raises the invalid-link error for every text that
\* is not exactly firestrike:// + 64 lowercase hex characters + # + the
\* base64 of 32 bytes
C29_ParseRejects ==
    [][(last'.op = "parse_magnet_link" /\ ~ExactLink(last'.magnet_link))
       => last'.error = "ValueError"]_vars

\* C30: hashing the same plaintext again gives the same identifier of 64
\* hex characters, whatever the chunks it is read in; anonymous_hash of the
\* same data and salt gives the same digest again; and verify_hash is true
\* exactly for the digest anonymous_hash returns for that data and salt
C30_HashDeterministic ==
    [][/\ last'.op = "calculate_file_hash"
          => /\ Len(last'.result) = HASH_LENGTH
             /\ LowerHex(last'.result)
             /\ (last.op = "calculate_file_hash" /\ last.data = last'.data)
                => last'.result = last.result
       /\ last'.op = "anonymous_hash"
          => /\ Len(hex(last'.digest)) = HASH_LENGTH
             /\ (/\ last.op = "anonymous_hash"
                 /\ last.data = last'.data
                 /\ last.salt = last'.salt)
                => last'.digest = last.digest
       /\ last'.op = "verify_hash"
          => (last'.result
                <=> last'.expected_hash
                      = anonymous_hash(last'.data, last'.salt).digest)]_vars

C30_Witness ==
    /\ last.op = "calculate_file_hash"
    /\ last.repeat
    /\ Len(last.data) > 3
    /\ Len(last.result) = HASH_LENGTH

\* what get_data answers for an id the history says is stored
StoredAnswer(stored, h) ==
    IF Has(stored, h)
    THEN [kind |-> "tuple", data |-> stored[h].data, salt |-> stored[h].salt]
    ELSE [kind |-> "None"]

\* C31: as long as every store_data ran to its end, with restarts anywhere
\* between the calls, get_data gives the payload and salt of the last
\* store_data of the id that no remove_data followed, and None otherwise;
\* storing the same again leaves the state as it is; remove_data is True
\* exactly for an id that is present and leaves every other id as it is
C31_StorageKeepsLastStore ==
    [][(disk.state = "storage" /\ disk.doubt = {})
       => /\ last'.op = "get_data"
             => last'.result = StoredAnswer(disk.stored, last'.data_hash)
          /\ (last'.op = "store_data" /\ last'.again) => disk' = disk
          /\ last'.op = "remove_data"
             => /\ last'.result = Has(disk.stored, last'.data_hash)
                /\ ~Has(disk'.files, last'.data_hash)
                /\ \A k \in StorageIds \ {last'.data_hash} :
                      /\ get_data(disk', k) = get_data(disk, k)
                      /\ Has(disk'.files, k) = Has(disk.files, k)]_vars

C31_Witness ==
    /\ last.op = "get_data"
    /\ disk.doubt = {}
    /\ last.data_hash = "h0"
    /\ last.result = [kind |-> "tuple", data |-> <<3, 4>>, salt |-> <<11>>]
    /\ Has(disk.stored, "h1")
    /\ disk.stored["h1"].data = <<1, 2>>

\* C32: whatever the point at which a process died inside store_data, after
\* the restart get_data gives None or a whole payload that was passed to
\* store_data, and an id whose own store_data calls all ran to their end is
\* still readable
C32_StoreCrashConsistent ==
    [][last'.op = "get_data"
       => /\ last'.result.kind = "tuple"
             => last'.result.data \in {payload[1] : payload \in StoragePayloads}
          /\ (Has(disk.stored, last'.data_hash) /\ last'.data_hash \notin disk.doubt)
             => last'.result.kind = "tuple"]_vars

\* the directory without the peer at address a
Without(p, a) == SelectSeq(p, LAMBDA r : r.onion_address # a)

\* C33: under every interleaving of inbound requests, clock and sweep the
\* directory holds each address once and at most max_peers of them; a
\* request handled while a sweep is under way leaves the sweep's list as it
\* is; and a sweep step that finds its peer failed leaves the directory
\* without exactly that peer (as it was when another task had already
\* removed it) and goes on to the next peer of its list
C33_SerializedMutations ==
    [][/\ Len(peers') <= max_peers
       /\ Distinct([i \in DOMAIN peers' |-> peers'[i].onion_address])
       /\ (last'.op = "connection" /\ ping_task = "pinging")
          => (sweep_queue' = sweep_queue /\ ping_task' = "pinging")
       /\ (last'.op = "sweep_ping" /\ last'.answer \in {"None", "error"})
          => /\ sweep_queue' = Tail(sweep_queue)
             /\ IF sweep_queue' # <<>>
                THEN peers' = Without(peers, last'.peer)
                ELSE peers' = cleanup_peers(Without(peers, last'.peer), now)]_vars

C33_Witness ==
    /\ last.op = "sweep_ping"
    /\ last.answer = "None"
    /\ ~last.known
    /\ ping_task = "pinging"
    /\ peers # <<>>
    /\ \A i \in DOMAIN peers : peers[i].last_seen = now

\* C34: no step of the node takes an id out of the data store, a payload
\* changes only by a store for its id, and a find for an id the data store
\* holds is answered found
C34_StoreNeverForgets ==
    [][/\ DOMAIN data_store \subseteq DOMAIN data_store'
       /\ \A h \in DOMAIN data_store :
             data_store'[h] # data_store[h]
             => /\ last'.op = "connection"
                /\ IsDict(last'.msg)
                /\ MessageType(last'.msg) = "store"
                /\ last'.msg.hash = h
       /\ (/\ last'.op = "connection"
           /\ last'.kind = "json"
           /\ IsDict(last'.msg)
           /\ MessageType(last'.msg) = "find"
           /\ Truthy(last'.msg, "hash")
           /\ last'.msg.hash \in DOMAIN data_store)
          => last'.resp.status = "found"]_vars

\* C35: a ping answered ok leaves the sender in the directory of the
\* node pinged and the node pinged in the directory of the sender; and once
\* each pair of the three nodes has exchanged a ping, every node's directory
\* holds the two others
C35_PingMakesMutual ==
    [][disk'.state = "network"
       => /\ (/\ last'.op = "connect_to_peer"
              /\ last'.message.type = "ping"
              /\ last'.response.status = "ok")
             => /\ last'.from \in PeerAddrs(disk'.node[last'.to].peers)
                /\ last'.to \in PeerAddrs(disk'.node[last'.from].peers)
          /\ (\A a \in NetNodes : \A b \in NetNodes \ {a} :
                 <<a, b>> \in disk'.pinged \/ <<b, a>> \in disk'.pinged)
             => \A n \in NetNodes :
                   PeerAddrs(disk'.node[n].peers) = NetNodes \ {n}]_vars

\* the uploaded file a content id stands for
FileOf(h) == CHOOSE f \in DOMAIN disk.uploaded : FileId(f) = h

\* C36: in the network of three nodes that know each other, an upload
\* leaves the ciphertext under the content id on the two other nodes; from
\* then on, also after one node was stopped, a find for that id sent to a
\* running node is answered found with the ciphertext, and a download on a
\* running node returns the bytes of the uploaded file
C36_UploadSurvivesNodeStop ==
    [][disk'.state = "network"
       => /\ last'.op = "upload_file"
             => \A t \in NetNodes \ {last'.at} :
                   /\ Has(disk'.node[t].data_store, last'.file_hash)
                   /\ disk'.node[t].data_store[last'.file_hash] = FireOf(last'.file)
          /\ (/\ last'.op = "connect_to_peer"
              /\ last'.message.type = "find"
              /\ disk.node[last'.to].up)
             => /\ last'.response.status = "found"
                /\ fromhex(last'.response.data).ok
                /\ fromhex(last'.response.data).val
                     = FireOf(FileOf(last'.message.hash))
          /\ last'.op = "download_file"
             => /\ last'.result.ok
                /\ last'.result.bytes = FileBytes(last'.file)]_vars

\* C37: with every node running, a download on another node than the one
\* that uploaded returns the bytes of the file, whatever its size; every
\* store request of the upload is answered ok, and every find sent to a
\* node that holds the id is answered
C37_EndToEndAnySize ==
    [][(disk'.state = "network" /\ \A n \in NetNodes : disk'.node[n].up)
       => /\ (/\ last'.op = "download_file"
              /\ last'.at # disk.uploaded[last'.file])
             => /\ last'.result.ok
                /\ last'.result.bytes = FileBytes(last'.file)
          /\ last'.op = "upload_file"
             => last'.success_count = Len(last'.targets)
          /\ (/\ last'.op = "connect_to_peer"
              /\ last'.message.type = "find"
              /\ Has(disk.node[last'.to].data_store, last'.message.hash))
             => last'.response # None]_vars

\* the peer records of directory q are those of p, but for the known-content
\* set of the peer at address a, which may have gained h
SameButHolds(p, q, a, h) ==
    /\ Len(q) = Len(p)
    /\ \A i \in DOMAIN p :
          IF p[i].onion_address = a
          THEN /\ [q[i] EXCEPT !.shared_files = {}] = [p[i] EXCEPT !.shared_files = {}]
               /\ p[i].shared_files \subseteq q[i].shared_files
               /\ q[i].shared_files \subseteq p[i].shared_files \cup {h}
          ELSE q[i] = p[i]

StartCalled ==
    /\ last' # last
    /\ last'.op = "start"
    /\ last'.phase \in {"serving", "cleanup"}

\* C39: when start() (with its start_tor) fails, cleanup has run by the
\* time the error reaches the caller: is_running is false, the ping task is
\* cancelled, the listener closed, the controller closed and the Tor process
\* killed.  A start() on a node whose tor_process is set fails with "TOR is
\* already running" whatever Tor would do, so no later start() succeeds.
C39_FailedStartStops ==
    [][/\ (last' # last /\ last'.op = "start" /\ last'.phase = "done")
          => /\ last'.outcome # "ok"
             /\ ~is_running'
             /\ ping_task' \notin {"sleeping", "pinging", "cancelling"}
             /\ server' # "serving"
             /\ controller' # "open"
             /\ tor_process' # "running"
             /\ cleanup_pc'.at = "idle"
       /\ (StartCalled /\ last'.outcome # "ok")
          => /\ ~is_running'
             /\ cleanup_pc'.at # "idle"
       /\ (StartCalled /\ tor_process # "None")
          => /\ last'.outcome = "already_running"
             /\ tor_process' = tor_process]_vars

\* a start() on a running node has failed and has torn the node down
C39_Witness ==
    /\ last.op = "start"
    /\ last.phase = "done"
    /\ last.outcome = "already_running"
    /\ ~is_running
    /\ ping_task = "cancelled"
    /\ server = "closed"
    /\ tor_process = "killed"

\* a request or response whose encoding is longer than one read returns
TooLong(m) == json_dumps_len(m) > CHUNK_SIZE

====
